---- MODULE Spec2Model ----
(***************************************************************************)
(* A model of the Kenyan nutrition agent: the three sub-agents             *)
(* (PatientProfileAgent, RegionalFoodAgent, FoodRecommendationAgent) and   *)
(* the pipeline KenyanNutritionAgent.get_nutrition_recommendations that    *)
(* chains them.  Every sub-agent first asks the external generative model  *)
(* and falls back to local rules when the call or the parse fails, so the  *)
(* answers of the external model are inputs of every action.               *)
(*                                                                         *)
(* Units.  The source computes with floats; the model computes with exact  *)
(* integers in fixed units:                                                *)
(*   weight          hundredths of a kilogram   (78.0 kg  -> 7800)         *)
(*   height          centimetres                (1.68 m   -> 168)          *)
(*   bmi (rounded)   hundredths                 (27.64    -> 2764)         *)
(*   carbs, protein, fat, fiber   tenths of a gram per 100 g               *)
(* An unrounded bmi is the fraction [num, den] = weight / height^2.        *)
(*                                                                         *)
(* Python values that come from the external model are untyped, so they    *)
(* carry a tag: a record [t, v] with t in null, num, str, list, dict.      *)
(* A Python dict is a function from its keys; a missing key is a key not   *)
(* in its DOMAIN.  A call returns Ok(value) or Err(exception name).        *)
(*                                                                         *)
(* Requests are served with collect_feedback = False (session_id = None),  *)
(* the default of every entry point, so the interactive feedback prompts   *)
(* are never entered.                                                      *)
(***************************************************************************)
EXTENDS Integers, Sequences, FiniteSets, TLC

VARIABLES
    pc,               \* position in get_nutrition_recommendations: step1..step4, done, raised
    request,          \* the arguments of the request being served
    svc,              \* the external model's answers this request has consumed
    profile_out,      \* what create_patient_profile returned (Ok/Err), or Nothing
    foods_out,        \* what step 2's get_regional_foods returned, or Nothing
    recs_out,         \* what generate_recommendations returned (Ok/Err), or Nothing
    recs_foods,       \* the catalog generate_recommendations fetched for itself, or Nothing
    report_out,       \* the complete report (Ok/Err), or Nothing
    db_regional_foods, \* RegionalFoodAgent.regional_foods, the static regional catalog
    call,             \* a method called on its own: its name and arguments, or NoCall
    ret               \* what that call returned (Ok/Err), or Nothing

vars == <<pc, request, svc, profile_out, foods_out, recs_out,
          recs_foods, report_out, db_regional_foods, call, ret>>

-----------------------------------------------------------------------------
(* Python values                                                           *)

Nothing == [ok |-> FALSE, exc |-> "not called"]

NoCall == [op |-> "none"]

Ok(v) == [ok |-> TRUE, val |-> v]

Err(e) == [ok |-> FALSE, exc |-> e]

\* the statements after a call: F of the value r returned, or the exception
\* r raised passed on
Then(r, F(_)) == IF r.ok THEN F(r.val) ELSE r

\* try: r  except Exception: handler
Try(r, handler) == IF r.ok THEN r ELSE handler

\* a local variable: F of the value v
With(v, F(_)) == F(v)

JNull == [t |-> "null", v |-> 0]

N(n) == [t |-> "num", v |-> n]

S(s) == [t |-> "str", v |-> s]

L(q) == [t |-> "list", v |-> q]

D(f) == [t |-> "dict", v |-> f]

EmptyDict == [k \in {} |-> 0]

Has(d, k) == k \in DOMAIN d

\* d.get(k, default)
Get(d, k, default) == IF k \in DOMAIN d THEN d[k] ELSE default

Put(d, k, x) == [y \in (DOMAIN d) \cup {k} |-> IF y = k THEN x ELSE d[y]]

\* {**a, **b}: the keys of both, b's value where both have the key
Merge(a, b) == [y \in (DOMAIN a) \cup (DOMAIN b) |-> IF y \in DOMAIN b THEN b[y] ELSE a[y]]

Restrict(d, K) == [y \in K |-> d[y]]

Range(q) == {q[i] : i \in DOMAIN q}

\* q[:n]
Prefix(q, n) == IF Len(q) <= n THEN q ELSE SubSeq(q, 1, n)

-----------------------------------------------------------------------------
(* The external model's responses and their parsing                        *)

\* response.text is  <fence> body <closing fence>; fence is "none", "json"
\* (```json) or "bare" (```); closed says whether the text ends with ```.
\* body is a tagged JSON value, or "garbage" for text that is no JSON.
Raises == [kind |-> "raise"]

Text(fence, closed, body) == [kind |-> "text", fence |-> fence, closed |-> closed, body |-> body]

Plain(body) == Text("none", FALSE, body)

Garbage == [t |-> "garbage", v |-> 0]

\* The wrappings of one body: the slices [7:-3] and [3:-3] cut the last
\* three characters whether or not they are a closing fence.
Wrappings(body) ==
    <<Text("json", TRUE, body), Text("bare", TRUE, body),
      Text("json", FALSE, body), Text("bare", FALSE, body), Text("none", TRUE, body)>>

\* generate_content, .text.strip(), the fence slices, json.loads
ParseResponse(resp) ==
    IF resp.kind = "raise" THEN Err("Exception")
    ELSE IF resp.body.t = "garbage" THEN Err("JSONDecodeError")
    ELSE IF resp.fence = "none" /\ ~resp.closed THEN Ok(resp.body)
    ELSE IF resp.fence # "none" /\ resp.closed THEN Ok(resp.body)
    ELSE Err("JSONDecodeError")

-----------------------------------------------------------------------------
(* PatientProfileAgent                                                     *)

\* round(n/d, 0) as Python rounds: to nearest, ties to even (d > 0)
RoundHalfEven(n, d) ==
    LET q == n \div d
        r == n % d
    IN  IF 2 * r < d THEN q
        ELSE IF 2 * r > d THEN q + 1
        ELSE IF q % 2 = 0 THEN q ELSE q + 1

\* int(n/d): truncation toward zero (d > 0)
Trunc(n, d) == IF n >= 0 THEN n \div d ELSE -((-n) \div d)

\* weight / (height ** 2), unrounded, as a fraction in kg/m^2
RawBmi(weight, height) == [num |-> weight * 100, den |-> height * height]

\* a rounded bmi (hundredths) as a fraction
Hundredths(b) == [num |-> b, den |-> 100]

\* calculate_bmi cutting the quotient to two decimals instead of rounding it
calculate_bmi_truncated(weight, height) == Trunc(weight * 10000, height * height)

\* round(weight / (height ** 2), 2), in hundredths; height # 0
calculate_bmi(weight, height) == RoundHalfEven(weight * 10000, height * height)

\* the list risk_factors built by categorize_health_status
risk_factors(bmi, blood_sugar, blood_pressure, diabetes_status) ==
    (IF bmi.num >= 30 * bmi.den THEN <<"obesity">>
     ELSE IF bmi.num >= 25 * bmi.den THEN <<"overweight">> ELSE <<>>)
    \o (IF blood_sugar > 126 THEN <<"high_blood_sugar">>
        ELSE IF blood_sugar > 100 THEN <<"elevated_blood_sugar">> ELSE <<>>)
    \o (IF blood_pressure.systolic >= 140 \/ blood_pressure.diastolic >= 90
          THEN <<"hypertension">>
        ELSE IF blood_pressure.systolic >= 130 \/ blood_pressure.diastolic >= 80
          THEN <<"elevated_bp">> ELSE <<>>)
    \o (IF diabetes_status \in {"type1", "type2"} THEN <<"diabetes">>
        ELSE IF diabetes_status = "prediabetes" THEN <<"prediabetes">> ELSE <<>>)

\* categorize_health_status with high_risk from two risk factors on
categorize_health_status_from_two(age, bmi, blood_sugar, blood_pressure, diabetes_status) ==
    LET n == Len(risk_factors(bmi, blood_sugar, blood_pressure, diabetes_status))
    IN  IF n >= 2 THEN "high_risk"
        ELSE IF n >= 1 THEN "moderate_risk"
        ELSE "low_risk"

\* categorize_health_status with high_risk for exactly three risk factors
categorize_health_status_exactly_three(age, bmi, blood_sugar, blood_pressure, diabetes_status) ==
    LET n == Len(risk_factors(bmi, blood_sugar, blood_pressure, diabetes_status))
    IN  IF n = 3 THEN "high_risk"
        ELSE IF n >= 1 THEN "moderate_risk"
        ELSE "low_risk"

categorize_health_status(age, bmi, blood_sugar, blood_pressure, diabetes_status) ==
    LET n == Len(risk_factors(bmi, blood_sugar, blood_pressure, diabetes_status))
    IN  IF n >= 3 THEN "high_risk"
        ELSE IF n >= 1 THEN "moderate_risk"
        ELSE "low_risk"

get_dietary_restrictions(diabetes_status, health_category) ==
    [limit_sugar         |-> diabetes_status \in {"type1", "type2", "prediabetes"},
     limit_sodium        |-> health_category \in {"high_risk", "moderate_risk"},
     portion_control     |-> health_category \in {"high_risk", "moderate_risk"},
     increase_fiber      |-> diabetes_status \in {"type2", "prediabetes"},
     limit_saturated_fat |-> health_category \in {"high_risk", "moderate_risk"}]

\* bmr = 10*weight + 6.25*height*100 - 5*age + 5;  int(bmr * 1.55)
calculate_calorie_needs(age, weight, height) ==
    LET bmr100 == 10 * weight + 625 * height - 500 * age + 500
    IN  Trunc(bmr100 * 155, 10000)

ValidCategories == {"low_risk", "moderate_risk", "high_risk"}

\* profile is the parsed answer (a tagged value), original_data the request
_validate_profile(profile, original_data) ==
    IF original_data.height = 0 THEN Err("ZeroDivisionError")
    ELSE IF profile.t # "dict" THEN Err("TypeError")
    ELSE
      LET bmi == RawBmi(original_data.weight, original_data.height)
          p1  == Put(profile.v, "bmi",
                     calculate_bmi(original_data.weight, original_data.height))
          p2  == IF Has(p1, "health_category") /\ p1["health_category"] \in ValidCategories
                 THEN p1
                 ELSE Put(p1, "health_category",
                          categorize_health_status(original_data.age, bmi,
                              original_data.blood_sugar, original_data.blood_pressure,
                              original_data.diabetes_status))
          c   == IF Has(p2, "calorie_needs") THEN p2["calorie_needs"] ELSE JNull
          p3  == IF c.t = "num" /\ 800 <= c.v /\ c.v <= 4000
                 THEN Put(p2, "calorie_needs", c.v)
                 ELSE Put(p2, "calorie_needs",
                          calculate_calorie_needs(original_data.age,
                              original_data.weight, original_data.height))
      IN  Ok(p3)

_fallback_profile_creation(patient_data) ==
    IF patient_data.height = 0 THEN Err("ZeroDivisionError")
    ELSE
      LET bmi == calculate_bmi(patient_data.weight, patient_data.height)
          health_category ==
              categorize_health_status(patient_data.age, Hundredths(bmi),
                  patient_data.blood_sugar, patient_data.blood_pressure,
                  patient_data.diabetes_status)
      IN  Ok([age                  |-> patient_data.age,
              weight               |-> patient_data.weight,
              height               |-> patient_data.height,
              bmi                  |-> bmi,
              blood_sugar          |-> patient_data.blood_sugar,
              blood_pressure       |-> patient_data.blood_pressure,
              diabetes_status      |-> patient_data.diabetes_status,
              location             |-> patient_data.location,
              health_category      |-> health_category,
              dietary_restrictions |->
                  get_dietary_restrictions(patient_data.diabetes_status, health_category),
              calorie_needs        |->
                  calculate_calorie_needs(patient_data.age, patient_data.weight,
                                          patient_data.height),
              analysis_reasoning   |-> "Generated using rule-based fallback method"])

\* try: parse, _validate_profile;  except Exception: _fallback_profile_creation
create_patient_profile(patient_data, resp) ==
    Try(Then(ParseResponse(resp), LAMBDA profile : _validate_profile(profile, patient_data)),
        _fallback_profile_creation(patient_data))

-----------------------------------------------------------------------------
(* The external model's answers to the profile prompt                      *)

NoAnswer == [kind |-> "none"]

NoAnswers == [profile |-> NoAnswer, catalog |-> NoAnswer, rec_catalog |-> NoAnswer,
              nutrition |-> NoAnswer, rec |-> NoAnswer]

AllRestrictions(b) ==
    [limit_sugar |-> b, limit_sodium |-> b, portion_control |-> b,
     increase_fiber |-> b, limit_saturated_fat |-> b]

\* the answer the prompt asks for: the input fields echoed, the derived ones filled in
AiProfile(req, bmi, health_category, dietary_restrictions, calorie_needs) ==
    [age |-> req.age, weight |-> req.weight, height |-> req.height, bmi |-> bmi,
     blood_sugar |-> req.blood_sugar, blood_pressure |-> req.blood_pressure,
     diabetes_status |-> req.diabetes_status, location |-> req.location,
     health_category |-> health_category,
     dietary_restrictions |-> dietary_restrictions,
     calorie_needs |-> calorie_needs,
     analysis_reasoning |-> "explanation of categorization"]

Without(d, K) == Restrict(d, (DOMAIN d) \ K)

\* JSON bodies the model may answer with: well-formed, wrong in a value,
\* missing fields, fields altered, an empty object, no object at all
ProfileBodies(req) ==
    << D(AiProfile(req, 0, "low_risk", AllRestrictions(FALSE), N(2000))),
       D(AiProfile(req, 2764, "high_risk", AllRestrictions(TRUE), N(4000))),
       D(Without(AiProfile(req, 0, "severe",
                           get_dietary_restrictions(req.diabetes_status, "moderate_risk"),
                           N(5000)), {"bmi"})),
       D(Without(AiProfile(req, 0, "", [limit_sugar |-> TRUE], S("2000")),
                 {"health_category"})),
       D(Without(AiProfile(req, 0, "moderate_risk", EmptyDict, N(800)),
                 {"dietary_restrictions"})),
       D([AiProfile(req, 0, "moderate_risk", AllRestrictions(FALSE), N(799))
              EXCEPT !.location = "mombasa", !.diabetes_status = "none"]),
       D(EmptyDict),
       L(<<>>) >>

ProfileAnswers(req) ==
    LET bodies == ProfileBodies(req)
    IN  <<Raises, Plain(Garbage)>>
        \o Wrappings(bodies[1])
        \o [i \in 1..Len(bodies) |-> Plain(bodies[i])]

-----------------------------------------------------------------------------
(* Requests                                                                *)

Request(age, weight, height, blood_sugar, blood_pressure, diabetes_status, location) ==
    [age |-> age, weight |-> weight, height |-> height, blood_sugar |-> blood_sugar,
     blood_pressure |-> blood_pressure, diabetes_status |-> diabetes_status,
     location |-> location]

BP(s, d) == [systolic |-> s, diastolic |-> d]

DiabetesStatuses == {"none", "type1", "type2", "prediabetes"}

\* the vitals the profiler is applied to: the thresholds of every risk group,
\* a bmi that rounds across 25 (63.99 kg, 1.60 m), the demo patient, calorie
\* needs below 800 and above 4000, and vitals that are not valid
GridAges == {-1, 0, 45}

GridWeights == {-500, 0, 300, 6399, 7800, 30000}

GridHeights == {0, 50, 160, 168}

GridBloodSugars == {100, 101, 126, 127}

GridBloodPressures == {BP(120, 70), BP(130, 70), BP(120, 80), BP(140, 85), BP(120, 90)}

ProfilerGrid ==
    {Request(a, w, h, s, p, d, "nairobi") :
        a \in GridAges, w \in GridWeights, h \in GridHeights,
        s \in GridBloodSugars, p \in GridBloodPressures, d \in DiabetesStatuses}

-----------------------------------------------------------------------------
(* The local tables of RegionalFoodAgent                                   *)

\* an alias table one of whose targets, "lake", the catalog has no entry for
region_mapping_with_lake_region ==
    ("nairobi" :> "central") @@ ("mombasa" :> "coastal") @@ ("kisumu" :> "lake")

region_mapping ==
    ("nairobi" :> "central") @@ ("kiambu" :> "central") @@ ("murang'a" :> "central")
    @@ ("nyeri" :> "central") @@ ("kirinyaga" :> "central") @@ ("nyandarua" :> "central")
    @@ ("meru" :> "central") @@ ("tharaka-nithi" :> "central") @@ ("mombasa" :> "coastal")
    @@ ("kilifi" :> "coastal") @@ ("kwale" :> "coastal") @@ ("lamu" :> "coastal")
    @@ ("tana river" :> "coastal") @@ ("taita-taveta" :> "coastal") @@ ("kisumu" :> "western")
    @@ ("kakamega" :> "western") @@ ("bungoma" :> "western") @@ ("vihiga" :> "western")
    @@ ("siaya" :> "western") @@ ("busia" :> "western") @@ ("trans-nzoia" :> "western")
    @@ ("machakos" :> "eastern") @@ ("kitui" :> "eastern") @@ ("makueni" :> "eastern")
    @@ ("embu" :> "eastern") @@ ("isiolo" :> "eastern") @@ ("marsabit" :> "eastern")
    @@ ("moyale" :> "eastern") @@ ("garissa" :> "northern") @@ ("mandera" :> "northern")
    @@ ("wajir" :> "northern") @@ ("turkana" :> "northern") @@ ("west pokot" :> "northern")
    @@ ("samburu" :> "northern") @@ ("kisii" :> "nyanza") @@ ("nyamira" :> "nyanza")
    @@ ("homa bay" :> "nyanza") @@ ("migori" :> "nyanza") @@ ("kericho" :> "nyanza")
    @@ ("bomet" :> "nyanza") @@ ("nakuru" :> "rift_valley") @@ ("eldoret" :> "rift_valley")
    @@ ("narok" :> "rift_valley") @@ ("kajiado" :> "rift_valley") @@ ("laikipia" :> "rift_valley")
    @@ ("nandi" :> "rift_valley") @@ ("uasin gishu" :> "rift_valley") @@ ("elgeyo-marakwet" :> "rift_valley")
    @@ ("baringo" :> "rift_valley")

InitialRegionalFoods ==
    ("central" :> [
        grains |-> <<"maize", "wheat", "barley", "millet", "rice">>,
        vegetables |-> <<"kale", "spinach", "cabbage", "carrots", "onions", "tomatoes", "sweet_potatoes", "irish_potatoes", "potatoes", "beans_leaves">>,
        fruits |-> <<"bananas", "oranges", "mangoes", "avocados", "passion_fruit", "tree_tomatoes", "macadamia">>,
        legumes |-> <<"beans", "peas", "groundnuts", "green_grams">>,
        proteins |-> <<"chicken", "beef", "goat_meat", "fish", "eggs", "milk", "dairy_products">> ])
    @@ ("coastal" :> [
        grains |-> <<"rice", "maize", "cassava", "millet", "sorghum">>,
        vegetables |-> <<"coconut", "okra", "eggplant", "amaranth", "sweet_potatoes", "cassava_leaves", "pumpkin_leaves", "spinach">>,
        fruits |-> <<"coconut", "mangoes", "jackfruit", "baobab_fruit", "oranges", "bananas", "cashew_fruit", "tamarind">>,
        legumes |-> <<"cowpeas", "pigeon_peas", "green_grams", "bambara_nuts">>,
        proteins |-> <<"fish", "seafood", "prawns", "crabs", "chicken", "goat_meat", "coconut_milk">> ])
    @@ ("western" :> [
        grains |-> <<"maize", "millet", "sorghum", "finger_millet", "rice">>,
        vegetables |-> <<"kale", "spinach", "pumpkin", "sweet_potatoes", "irish_potatoes", "onions", "tomatoes", "cabbage">>,
        fruits |-> <<"bananas", "sugarcane", "pineapples", "passion_fruit", "oranges", "mangoes", "guavas">>,
        legumes |-> <<"beans", "groundnuts", "soya_beans", "cowpeas">>,
        proteins |-> <<"fish", "chicken", "beef", "milk", "eggs", "tilapia">> ])
    @@ ("northern" :> [
        grains |-> <<"sorghum", "millet", "maize", "pearl_millet">>,
        vegetables |-> <<"kale", "onions", "tomatoes", "sweet_potatoes", "pumpkin", "amaranth">>,
        fruits |-> <<"dates", "mangoes", "watermelon", "doum_palm">>,
        legumes |-> <<"cowpeas", "pigeon_peas", "black_eyed_peas">>,
        proteins |-> <<"goat_meat", "camel_meat", "beef", "milk", "camel_milk">> ])
    @@ ("eastern" :> [
        grains |-> <<"maize", "millet", "sorghum", "finger_millet">>,
        vegetables |-> <<"kale", "spinach", "pumpkin", "sweet_potatoes", "cassava", "onions", "tomatoes">>,
        fruits |-> <<"mangoes", "oranges", "bananas", "watermelon", "baobab_fruit", "passion_fruit">>,
        legumes |-> <<"cowpeas", "green_grams", "pigeon_peas", "beans">>,
        proteins |-> <<"goat_meat", "beef", "chicken", "milk", "eggs">> ])
    @@ ("nyanza" :> [
        grains |-> <<"maize", "millet", "sorghum", "finger_millet", "rice">>,
        vegetables |-> <<"kale", "spinach", "sweet_potatoes", "pumpkin", "amaranth", "spider_plant", "nightshade">>,
        fruits |-> <<"bananas", "oranges", "mangoes", "sugarcane", "passion_fruit", "guavas">>,
        legumes |-> <<"beans", "groundnuts", "soya_beans", "cowpeas", "green_grams">>,
        proteins |-> <<"fish", "tilapia", "chicken", "beef", "milk", "eggs">> ])
    @@ ("rift_valley" :> [
        grains |-> <<"maize", "wheat", "barley", "millet", "oats">>,
        vegetables |-> <<"kale", "cabbage", "carrots", "onions", "irish_potatoes", "sweet_potatoes", "spinach">>,
        fruits |-> <<"bananas", "oranges", "mangoes", "apples", "passion_fruit", "strawberries">>,
        legumes |-> <<"beans", "peas", "groundnuts", "green_grams">>,
        proteins |-> <<"beef", "lamb", "chicken", "milk", "eggs", "dairy_products">> ])

nutrition_db ==
    ("maize" :> [calories_per_100g |-> 365, carbs |-> 740, protein |-> 90, fat |-> 47, fiber |-> 73, gi |-> 60])
    @@ ("rice" :> [calories_per_100g |-> 365, carbs |-> 800, protein |-> 70, fat |-> 7, fiber |-> 13, gi |-> 73])
    @@ ("millet" :> [calories_per_100g |-> 378, carbs |-> 730, protein |-> 110, fat |-> 42, fiber |-> 85, gi |-> 71])
    @@ ("wheat" :> [calories_per_100g |-> 340, carbs |-> 720, protein |-> 130, fat |-> 25, fiber |-> 122, gi |-> 30])
    @@ ("barley" :> [calories_per_100g |-> 354, carbs |-> 730, protein |-> 120, fat |-> 23, fiber |-> 173, gi |-> 25])
    @@ ("sorghum" :> [calories_per_100g |-> 339, carbs |-> 750, protein |-> 110, fat |-> 33, fiber |-> 63, gi |-> 62])
    @@ ("finger_millet" :> [calories_per_100g |-> 336, carbs |-> 720, protein |-> 73, fat |-> 13, fiber |-> 36, gi |-> 104])
    @@ ("pearl_millet" :> [calories_per_100g |-> 361, carbs |-> 670, protein |-> 110, fat |-> 50, fiber |-> 85, gi |-> 67])
    @@ ("cassava" :> [calories_per_100g |-> 160, carbs |-> 380, protein |-> 14, fat |-> 3, fiber |-> 18, gi |-> 46])
    @@ ("oats" :> [calories_per_100g |-> 389, carbs |-> 660, protein |-> 170, fat |-> 70, fiber |-> 106, gi |-> 55])
    @@ ("kale" :> [calories_per_100g |-> 35, carbs |-> 44, protein |-> 29, fat |-> 4, fiber |-> 41, gi |-> 15])
    @@ ("spinach" :> [calories_per_100g |-> 23, carbs |-> 36, protein |-> 29, fat |-> 4, fiber |-> 22, gi |-> 15])
    @@ ("sweet_potatoes" :> [calories_per_100g |-> 86, carbs |-> 200, protein |-> 16, fat |-> 1, fiber |-> 30, gi |-> 70])
    @@ ("cabbage" :> [calories_per_100g |-> 25, carbs |-> 60, protein |-> 13, fat |-> 1, fiber |-> 25, gi |-> 10])
    @@ ("carrots" :> [calories_per_100g |-> 41, carbs |-> 100, protein |-> 9, fat |-> 2, fiber |-> 28, gi |-> 47])
    @@ ("onions" :> [calories_per_100g |-> 40, carbs |-> 90, protein |-> 11, fat |-> 1, fiber |-> 17, gi |-> 15])
    @@ ("tomatoes" :> [calories_per_100g |-> 18, carbs |-> 39, protein |-> 9, fat |-> 2, fiber |-> 12, gi |-> 15])
    @@ ("irish_potatoes" :> [calories_per_100g |-> 77, carbs |-> 170, protein |-> 20, fat |-> 1, fiber |-> 22, gi |-> 78])
    @@ ("potatoes" :> [calories_per_100g |-> 77, carbs |-> 170, protein |-> 20, fat |-> 1, fiber |-> 22, gi |-> 78])
    @@ ("beans_leaves" :> [calories_per_100g |-> 45, carbs |-> 90, protein |-> 42, fat |-> 5, fiber |-> 48, gi |-> 15])
    @@ ("okra" :> [calories_per_100g |-> 33, carbs |-> 70, protein |-> 19, fat |-> 2, fiber |-> 32, gi |-> 20])
    @@ ("eggplant" :> [calories_per_100g |-> 25, carbs |-> 60, protein |-> 10, fat |-> 2, fiber |-> 30, gi |-> 15])
    @@ ("amaranth" :> [calories_per_100g |-> 23, carbs |-> 46, protein |-> 25, fat |-> 3, fiber |-> 21, gi |-> 15])
    @@ ("cassava_leaves" :> [calories_per_100g |-> 37, carbs |-> 70, protein |-> 37, fat |-> 6, fiber |-> 37, gi |-> 15])
    @@ ("pumpkin_leaves" :> [calories_per_100g |-> 19, carbs |-> 39, protein |-> 30, fat |-> 2, fiber |-> 22, gi |-> 15])
    @@ ("pumpkin" :> [calories_per_100g |-> 26, carbs |-> 70, protein |-> 10, fat |-> 1, fiber |-> 5, gi |-> 75])
    @@ ("spider_plant" :> [calories_per_100g |-> 30, carbs |-> 55, protein |-> 35, fat |-> 4, fiber |-> 32, gi |-> 15])
    @@ ("nightshade" :> [calories_per_100g |-> 28, carbs |-> 58, protein |-> 25, fat |-> 3, fiber |-> 28, gi |-> 15])
    @@ ("bananas" :> [calories_per_100g |-> 89, carbs |-> 230, protein |-> 11, fat |-> 3, fiber |-> 26, gi |-> 62])
    @@ ("mangoes" :> [calories_per_100g |-> 60, carbs |-> 150, protein |-> 8, fat |-> 4, fiber |-> 16, gi |-> 51])
    @@ ("avocados" :> [calories_per_100g |-> 160, carbs |-> 90, protein |-> 20, fat |-> 150, fiber |-> 70, gi |-> 15])
    @@ ("oranges" :> [calories_per_100g |-> 47, carbs |-> 120, protein |-> 9, fat |-> 1, fiber |-> 24, gi |-> 45])
    @@ ("passion_fruit" :> [calories_per_100g |-> 97, carbs |-> 230, protein |-> 22, fat |-> 7, fiber |-> 104, gi |-> 30])
    @@ ("tree_tomatoes" :> [calories_per_100g |-> 31, carbs |-> 60, protein |-> 20, fat |-> 4, fiber |-> 33, gi |-> 25])
    @@ ("macadamia" :> [calories_per_100g |-> 718, carbs |-> 140, protein |-> 80, fat |-> 760, fiber |-> 86, gi |-> 15])
    @@ ("coconut" :> [calories_per_100g |-> 354, carbs |-> 150, protein |-> 33, fat |-> 330, fiber |-> 90, gi |-> 45])
    @@ ("jackfruit" :> [calories_per_100g |-> 95, carbs |-> 230, protein |-> 17, fat |-> 6, fiber |-> 15, gi |-> 75])
    @@ ("baobab_fruit" :> [calories_per_100g |-> 162, carbs |-> 380, protein |-> 23, fat |-> 2, fiber |-> 445, gi |-> 35])
    @@ ("cashew_fruit" :> [calories_per_100g |-> 46, carbs |-> 100, protein |-> 8, fat |-> 5, fiber |-> 17, gi |-> 25])
    @@ ("tamarind" :> [calories_per_100g |-> 239, carbs |-> 630, protein |-> 28, fat |-> 6, fiber |-> 51, gi |-> 23])
    @@ ("sugarcane" :> [calories_per_100g |-> 58, carbs |-> 130, protein |-> 4, fat |-> 5, fiber |-> 6, gi |-> 43])
    @@ ("pineapples" :> [calories_per_100g |-> 50, carbs |-> 130, protein |-> 5, fat |-> 1, fiber |-> 14, gi |-> 66])
    @@ ("guavas" :> [calories_per_100g |-> 68, carbs |-> 140, protein |-> 26, fat |-> 10, fiber |-> 54, gi |-> 12])
    @@ ("dates" :> [calories_per_100g |-> 282, carbs |-> 750, protein |-> 25, fat |-> 4, fiber |-> 80, gi |-> 55])
    @@ ("watermelon" :> [calories_per_100g |-> 30, carbs |-> 80, protein |-> 6, fat |-> 2, fiber |-> 4, gi |-> 72])
    @@ ("doum_palm" :> [calories_per_100g |-> 120, carbs |-> 300, protein |-> 15, fat |-> 5, fiber |-> 42, gi |-> 45])
    @@ ("apples" :> [calories_per_100g |-> 52, carbs |-> 140, protein |-> 3, fat |-> 2, fiber |-> 24, gi |-> 36])
    @@ ("strawberries" :> [calories_per_100g |-> 32, carbs |-> 80, protein |-> 7, fat |-> 3, fiber |-> 20, gi |-> 40])
    @@ ("beans" :> [calories_per_100g |-> 245, carbs |-> 450, protein |-> 150, fat |-> 10, fiber |-> 150, gi |-> 29])
    @@ ("groundnuts" :> [calories_per_100g |-> 567, carbs |-> 160, protein |-> 260, fat |-> 490, fiber |-> 85, gi |-> 14])
    @@ ("peas" :> [calories_per_100g |-> 81, carbs |-> 140, protein |-> 50, fat |-> 4, fiber |-> 57, gi |-> 22])
    @@ ("green_grams" :> [calories_per_100g |-> 347, carbs |-> 630, protein |-> 240, fat |-> 12, fiber |-> 163, gi |-> 25])
    @@ ("cowpeas" :> [calories_per_100g |-> 336, carbs |-> 600, protein |-> 240, fat |-> 13, fiber |-> 106, gi |-> 33])
    @@ ("pigeon_peas" :> [calories_per_100g |-> 343, carbs |-> 630, protein |-> 220, fat |-> 15, fiber |-> 150, gi |-> 22])
    @@ ("bambara_nuts" :> [calories_per_100g |-> 367, carbs |-> 570, protein |-> 190, fat |-> 65, fiber |-> 56, gi |-> 30])
    @@ ("soya_beans" :> [calories_per_100g |-> 446, carbs |-> 300, protein |-> 360, fat |-> 200, fiber |-> 93, gi |-> 25])
    @@ ("black_eyed_peas" :> [calories_per_100g |-> 336, carbs |-> 600, protein |-> 240, fat |-> 13, fiber |-> 106, gi |-> 33])
    @@ ("chicken" :> [calories_per_100g |-> 165, carbs |-> 0, protein |-> 310, fat |-> 36, fiber |-> 0, gi |-> 0])
    @@ ("fish" :> [calories_per_100g |-> 206, carbs |-> 0, protein |-> 220, fat |-> 120, fiber |-> 0, gi |-> 0])
    @@ ("eggs" :> [calories_per_100g |-> 155, carbs |-> 11, protein |-> 130, fat |-> 110, fiber |-> 0, gi |-> 0])
    @@ ("beef" :> [calories_per_100g |-> 250, carbs |-> 0, protein |-> 260, fat |-> 170, fiber |-> 0, gi |-> 0])
    @@ ("goat_meat" :> [calories_per_100g |-> 143, carbs |-> 0, protein |-> 270, fat |-> 30, fiber |-> 0, gi |-> 0])
    @@ ("camel_meat" :> [calories_per_100g |-> 217, carbs |-> 0, protein |-> 190, fat |-> 160, fiber |-> 0, gi |-> 0])
    @@ ("lamb" :> [calories_per_100g |-> 294, carbs |-> 0, protein |-> 250, fat |-> 210, fiber |-> 0, gi |-> 0])
    @@ ("milk" :> [calories_per_100g |-> 61, carbs |-> 48, protein |-> 32, fat |-> 33, fiber |-> 0, gi |-> 15])
    @@ ("camel_milk" :> [calories_per_100g |-> 46, carbs |-> 44, protein |-> 30, fat |-> 24, fiber |-> 0, gi |-> 15])
    @@ ("coconut_milk" :> [calories_per_100g |-> 230, carbs |-> 60, protein |-> 23, fat |-> 240, fiber |-> 22, gi |-> 25])
    @@ ("dairy_products" :> [calories_per_100g |-> 113, carbs |-> 47, protein |-> 34, fat |-> 90, fiber |-> 0, gi |-> 15])
    @@ ("seafood" :> [calories_per_100g |-> 85, carbs |-> 0, protein |-> 180, fat |-> 12, fiber |-> 0, gi |-> 0])
    @@ ("prawns" :> [calories_per_100g |-> 71, carbs |-> 9, protein |-> 130, fat |-> 14, fiber |-> 0, gi |-> 0])
    @@ ("crabs" :> [calories_per_100g |-> 97, carbs |-> 0, protein |-> 200, fat |-> 15, fiber |-> 0, gi |-> 0])
    @@ ("tilapia" :> [calories_per_100g |-> 129, carbs |-> 0, protein |-> 260, fat |-> 26, fiber |-> 0, gi |-> 0])

-----------------------------------------------------------------------------
(* RegionalFoodAgent                                                       *)

Categories == <<"grains", "vegetables", "fruits", "legumes", "proteins">>

\* str.lower() on the locations the requests use; every other location of
\* the model is already in lower case
UpperCased ==
    ("Mombasa" :> "mombasa") @@ ("GARISSA" :> "garissa") @@ ("NAIROBI" :> "nairobi")
    @@ ("Coastal" :> "coastal") @@ ("Rift_Valley" :> "rift_valley")
    @@ ("Atlantis" :> "atlantis")

Lower(s) == IF s \in DOMAIN UpperCased THEN UpperCased[s] ELSE s

\* _get_regional_foods_fallback looking the location up as it is written
_get_regional_foods_fallback_as_written(location) ==
    With(Get(region_mapping, location, location), LAMBDA region :
        IF region \in DOMAIN db_regional_foods
        THEN db_regional_foods[region]
        ELSE db_regional_foods["central"])

\* reads self.regional_foods
_get_regional_foods_fallback(location) ==
    With(Get(region_mapping, Lower(location), Lower(location)), LAMBDA region :
        IF region \in DOMAIN db_regional_foods
        THEN db_regional_foods[region]
        ELSE db_regional_foods["central"])

\* the items of q without repetition, in order of first occurrence
RECURSIVE Dedupe(_)
Dedupe(q) ==
    IF q = <<>> THEN <<>>
    ELSE With(Dedupe(SubSeq(q, 1, Len(q) - 1)), LAMBDA front :
            IF q[Len(q)] \in Range(front) THEN front ELSE Append(front, q[Len(q)]))

Reverse(q) == [i \in 1..Len(q) |-> q[Len(q) + 1 - i]]

\* q rotated left by k places
Rotate(q, k) ==
    IF q = <<>> THEN q
    ELSE [i \in 1..Len(q) |-> q[((i - 1 + k) % Len(q)) + 1]]

\* the rotations of a set's iteration order the model tries
MaxRot == 1

\* list(set(ai_category + local_category)): the distinct items, in the order
\* the set iterates, which the hashes of the strings fix for one run of the
\* interpreter and which differs from run to run.  order picks one of the
\* iteration orders: a rotation of the concatenation's order or of its reverse.
SetOrders == {[rot |-> r, rev |-> b] : r \in 0..MaxRot, b \in BOOLEAN}

ListOfSet(q, order) ==
    With(Dedupe(q), LAMBDA d : Rotate(IF order.rev THEN Reverse(d) ELSE d, order.rot))

RECURSIVE EnhanceFrom(_, _, _, _)
\* the loop of _enhance_with_local_data over the categories from index i on
EnhanceFrom(i, ai_foods, fallback_foods, order) ==
    IF i > Len(Categories) THEN Ok(EmptyDict)
    ELSE
      With(Get(ai_foods, Categories[i], L(<<>>)), LAMBDA ai_category :
          IF ai_category.t # "list" THEN Err("TypeError")
          ELSE Then(EnhanceFrom(i + 1, ai_foods, fallback_foods, order), LAMBDA enhanced :
                  Ok(Put(enhanced, Categories[i],
                         ListOfSet(ai_category.v \o fallback_foods[Categories[i]], order)))))

\* ai_foods is the parsed answer (a tagged value)
_enhance_with_local_data(location, ai_foods, order) ==
    IF ai_foods.t # "dict" THEN Err("AttributeError")
    ELSE EnhanceFrom(1, ai_foods.v, _get_regional_foods_fallback(location), order)

\* self.regional_foods after a lookup that extends the table's own lists by
\* the answer's foods (local_category.extend(ai_category)) before combining
regional_foods_after_enhance_in_place(location, resp) ==
    With(ParseResponse(resp), LAMBDA parsed :
    With(Get(region_mapping, Lower(location), Lower(location)), LAMBDA mapped :
    With(IF mapped \in DOMAIN db_regional_foods THEN mapped ELSE "central", LAMBDA region :
        IF ~parsed.ok \/ parsed.val.t # "dict" THEN db_regional_foods
        ELSE Put(db_regional_foods, region,
                 [c \in DOMAIN db_regional_foods[region] |->
                    With(Get(parsed.val.v, c, L(<<>>)), LAMBDA ai_category :
                        IF ai_category.t = "list"
                        THEN Dedupe(db_regional_foods[region][c] \o ai_category.v)
                        ELSE db_regional_foods[region][c])]))))

\* self.regional_foods after get_regional_foods.  _get_regional_foods_fallback
\* hands out the table's own entry, not a copy; _enhance_with_local_data only
\* reads it (ai_category + local_category and list(set(...)) build new lists,
\* enhanced is a new dict), so the table is left as it was
regional_foods_after_enhance(location, resp) == db_regional_foods

\* try: parse, _enhance_with_local_data;  except Exception: the local table
get_regional_foods(location, resp, order) ==
    Try(Then(ParseResponse(resp),
             LAMBDA ai_foods : _enhance_with_local_data(location, ai_foods, order)),
        Ok(_get_regional_foods_fallback(location))).val

\* nutrition_db.get(food_item, {}), every number tagged as the merged answer's are
_get_local_nutrition_data(food_item) ==
    With(Get(nutrition_db, food_item, EmptyDict),
         LAMBDA row : [k \in DOMAIN row |-> N(row[k])])

_default_nutrition_fallback ==
    [calories_per_100g |-> N(0), carbs |-> N(0), protein |-> N(0), fat |-> N(0),
     fiber |-> N(0), gi |-> N(50)]

\* get_nutritional_info merging the other way round, the answer's values
\* taking precedence: {**local_nutrition, **ai_nutrition}
get_nutritional_info_answer_first(food_item, resp) ==
    With(_get_local_nutrition_data(food_item), LAMBDA local_nutrition :
        Try(Then(ParseResponse(resp), LAMBDA ai_nutrition :
                    IF ai_nutrition.t = "dict"
                    THEN Ok(Merge(local_nutrition, ai_nutrition.v))
                    ELSE Err("TypeError")),
            Ok(IF DOMAIN local_nutrition # {} THEN local_nutrition
               ELSE _default_nutrition_fallback)).val)

\* get_nutritional_info keeping the gi of the answer when it gives one
get_nutritional_info_answer_gi_kept(food_item, resp) ==
    With(_get_local_nutrition_data(food_item), LAMBDA local_nutrition :
        Try(Then(ParseResponse(resp), LAMBDA ai_nutrition :
                    IF ai_nutrition.t = "dict"
                    THEN Ok(Merge(Merge(ai_nutrition.v, local_nutrition),
                                  [k \in (DOMAIN ai_nutrition.v) \cap {"gi"} |->
                                      ai_nutrition.v[k]]))
                    ELSE Err("TypeError")),
            Ok(IF DOMAIN local_nutrition # {} THEN local_nutrition
               ELSE _default_nutrition_fallback)).val)

\* try: parse, {**ai_nutrition, **local_nutrition};
\* except Exception: local_nutrition if local_nutrition else the default
get_nutritional_info(food_item, resp) ==
    With(_get_local_nutrition_data(food_item), LAMBDA local_nutrition :
        Try(Then(ParseResponse(resp), LAMBDA ai_nutrition :
                    IF ai_nutrition.t = "dict"
                    THEN Ok(Merge(ai_nutrition.v, local_nutrition))
                    ELSE Err("TypeError")),
            Ok(IF DOMAIN local_nutrition # {} THEN local_nutrition
               ELSE _default_nutrition_fallback)).val)

-----------------------------------------------------------------------------
(* FoodRecommendationAgent: the rule-based recommendation                  *)

\* nutrition.get("gi", 50) of every food, in order
Gis(foods, nut) ==
    [i \in 1..Len(foods) |-> Get(get_nutritional_info(foods[i], nut), "gi", N(50))]

RECURSIVE LowGi(_, _)
\* the loop of _filter_by_gi: the foods with gi < 55, in order
LowGi(foods, gis) ==
    IF foods = <<>> THEN <<>>
    ELSE (IF Head(gis).v < 55 THEN <<Head(foods)>> ELSE <<>>)
         \o LowGi(Tail(foods), Tail(gis))

\* _filter_by_gi falling back to the first three foods
_filter_by_gi_first_three(foods, limit_sugar, nut) ==
    IF ~limit_sugar THEN Ok(foods)
    ELSE With(Gis(foods, nut), LAMBDA gis :
        IF \E i \in 1..Len(gis) : gis[i].t # "num" THEN Err("TypeError")
        ELSE With(LowGi(foods, gis), LAMBDA low_gi_foods :
                Ok(IF low_gi_foods # <<>> THEN low_gi_foods ELSE Prefix(foods, 3))))

\* _filter_by_gi returning the low-gi foods even when there are none
_filter_by_gi_without_fallback(foods, limit_sugar, nut) ==
    IF ~limit_sugar THEN Ok(foods)
    ELSE With(Gis(foods, nut), LAMBDA gis :
        IF \E i \in 1..Len(gis) : gis[i].t # "num" THEN Err("TypeError")
        ELSE Ok(LowGi(foods, gis)))

\* nut is the external model's answer to the nutrition prompts of this call;
\* comparing a gi that is no number with 55 raises TypeError
_filter_by_gi(foods, limit_sugar, nut) ==
    IF ~limit_sugar THEN Ok(foods)
    ELSE With(Gis(foods, nut), LAMBDA gis :
        IF \E i \in 1..Len(gis) : gis[i].t # "num" THEN Err("TypeError")
        ELSE With(LowGi(foods, gis), LAMBDA low_gi_foods :
                Ok(IF low_gi_foods # <<>> THEN low_gi_foods ELSE Prefix(foods, 2))))

\* the food ids of the model whose text contains "nuts"
NutNamed == {"groundnuts", "bambara_nuts"}

RECURSIVE Select(_, _)
\* [food for food in q if food in set], for a set given by its members
Select(q, set) ==
    IF q = <<>> THEN <<>>
    ELSE (IF Head(q) \in set THEN <<Head(q)>> ELSE <<>>) \o Select(Tail(q), set)

\* _create_meal_plan with four vegetables for lunch
_create_meal_plan_four_lunch_vegetables(regional_foods, restrictions, profile, nut) ==
    IF ~Has(restrictions, "limit_sugar") THEN Err("KeyError")
    ELSE
      Then(_filter_by_gi(regional_foods["grains"], restrictions["limit_sugar"], nut),
           LAMBDA breakfast_grains :
      Then(_filter_by_gi(regional_foods["fruits"], restrictions["limit_sugar"], nut),
           LAMBDA fruits :
        Ok(D(
            [breakfast |-> D(
                [grains     |-> L(Prefix(breakfast_grains, 2)),
                 proteins   |-> L(Prefix(Select(regional_foods["proteins"],
                                                {"eggs", "milk"}), 1)),
                 vegetables |-> L(<<>>),
                 fruits     |-> L(Prefix(fruits, 2))]),
             lunch |-> D(
                [grains     |-> L(Prefix(regional_foods["grains"], 1)),
                 proteins   |-> L(Prefix(regional_foods["proteins"], 1)),
                 vegetables |-> L(Prefix(regional_foods["vegetables"], 4)),
                 legumes    |-> L(Prefix(regional_foods["legumes"], 1))]),
             dinner |-> D(
                [grains     |-> L(Prefix(regional_foods["grains"], 1)),
                 proteins   |-> L(Prefix(regional_foods["proteins"], 1)),
                 vegetables |-> L(Prefix(regional_foods["vegetables"], 2))]),
             snacks |-> D(
                [fruits     |-> L(Prefix(fruits, 2)),
                 nuts       |-> L(Prefix(Select(regional_foods["legumes"], NutNamed),
                                         1))])]))))

_create_meal_plan(regional_foods, restrictions, profile, nut) ==
    IF ~Has(restrictions, "limit_sugar") THEN Err("KeyError")
    ELSE
      Then(_filter_by_gi(regional_foods["grains"], restrictions["limit_sugar"], nut),
           LAMBDA breakfast_grains :
      Then(_filter_by_gi(regional_foods["fruits"], restrictions["limit_sugar"], nut),
           LAMBDA fruits :
        Ok(D(
            [breakfast |-> D(
                [grains     |-> L(Prefix(breakfast_grains, 2)),
                 proteins   |-> L(Prefix(Select(regional_foods["proteins"],
                                                {"eggs", "milk"}), 1)),
                 vegetables |-> L(<<>>),
                 fruits     |-> L(Prefix(fruits, 2))]),
             lunch |-> D(
                [grains     |-> L(Prefix(regional_foods["grains"], 1)),
                 proteins   |-> L(Prefix(regional_foods["proteins"], 1)),
                 vegetables |-> L(Prefix(regional_foods["vegetables"], 3)),
                 legumes    |-> L(Prefix(regional_foods["legumes"], 1))]),
             dinner |-> D(
                [grains     |-> L(Prefix(regional_foods["grains"], 1)),
                 proteins   |-> L(Prefix(regional_foods["proteins"], 1)),
                 vegetables |-> L(Prefix(regional_foods["vegetables"], 2))]),
             snacks |-> D(
                [fruits     |-> L(Prefix(fruits, 2)),
                 nuts       |-> L(Prefix(Select(regional_foods["legumes"], NutNamed),
                                         1))])]))))

\* any(food in category for category in regional_foods.values())
AllAvailable(regional_foods) ==
    UNION {Range(regional_foods[c]) : c \in DOMAIN regional_foods}

\* _get_preferred_foods listing the high-fiber foods for every patient
_get_preferred_foods_fiber_always(regional_foods, restrictions) ==
    IF ~Has(restrictions, "increase_fiber") THEN Err("KeyError")
    ELSE Ok(D(
      [high_fiber    |-> L(IF TRUE
                           THEN Select(<<"kale", "spinach", "beans", "sweet_potatoes",
                                         "avocados">>, AllAvailable(regional_foods))
                           ELSE <<>>),
       low_sodium    |-> L(<<>>),
       lean_proteins |-> L(Select(<<"fish", "chicken", "eggs">>,
                                  Range(regional_foods["proteins"]))),
       complex_carbs |-> L(Select(<<"millet", "sorghum", "sweet_potatoes">>,
                                  AllAvailable(regional_foods)))]))

_get_preferred_foods(regional_foods, restrictions) ==
    IF ~Has(restrictions, "increase_fiber") THEN Err("KeyError")
    ELSE Ok(D(
      [high_fiber    |-> L(IF restrictions["increase_fiber"]
                           THEN Select(<<"kale", "spinach", "beans", "sweet_potatoes",
                                         "avocados">>, AllAvailable(regional_foods))
                           ELSE <<>>),
       low_sodium    |-> L(<<>>),
       lean_proteins |-> L(Select(<<"fish", "chicken", "eggs">>,
                                  Range(regional_foods["proteins"]))),
       complex_carbs |-> L(Select(<<"millet", "sorghum", "sweet_potatoes">>,
                                  AllAvailable(regional_foods)))]))

\* _get_foods_to_limit listing the high-fat foods for every patient
_get_foods_to_limit_fat_ungated(regional_foods, restrictions) ==
    IF ~Has(restrictions, "limit_sugar") \/ ~Has(restrictions, "limit_saturated_fat")
    THEN Err("KeyError")
    ELSE Ok(D(
      [high_gi_foods     |-> L(IF restrictions["limit_sugar"]
                               THEN Select(<<"rice", "watermelon", "dates">>,
                                           AllAvailable(regional_foods))
                               ELSE <<>>),
       high_sodium_foods |-> L(<<>>),
       high_fat_foods    |-> L(IF TRUE
                               THEN Select(<<"coconut_milk", "groundnuts">>,
                                           AllAvailable(regional_foods))
                               ELSE <<>>)]))

_get_foods_to_limit(regional_foods, restrictions) ==
    IF ~Has(restrictions, "limit_sugar") \/ ~Has(restrictions, "limit_saturated_fat")
    THEN Err("KeyError")
    ELSE Ok(D(
      [high_gi_foods     |-> L(IF restrictions["limit_sugar"]
                               THEN Select(<<"rice", "watermelon", "dates">>,
                                           AllAvailable(regional_foods))
                               ELSE <<>>),
       high_sodium_foods |-> L(<<>>),
       high_fat_foods    |-> L(IF restrictions["limit_saturated_fat"]
                               THEN Select(<<"coconut_milk", "groundnuts">>,
                                           AllAvailable(regional_foods))
                               ELSE <<>>)]))

BaseGuidelines ==
    [grains     |-> "1/2 cup cooked",
     vegetables |-> "1 cup raw or 1/2 cup cooked",
     fruits     |-> "1 medium fruit or 1/2 cup",
     proteins   |-> "palm-sized portion (3-4 oz)",
     legumes    |-> "1/2 cup cooked"]

\* _get_portion_guidelines testing the bmi before the health category
_get_portion_guidelines_bmi_first(profile) ==
    IF ~Has(profile, "bmi") THEN Err("KeyError")
    ELSE IF profile["bmi"] >= 3000
      THEN Ok(D([k \in DOMAIN BaseGuidelines |-> S("Moderate " \o BaseGuidelines[k])]))
    ELSE IF ~Has(profile, "health_category") THEN Err("KeyError")
    ELSE IF profile["health_category"] = "high_risk"
      THEN Ok(D([k \in DOMAIN BaseGuidelines |-> S("Small " \o BaseGuidelines[k])]))
    ELSE Ok(D([k \in DOMAIN BaseGuidelines |-> S(BaseGuidelines[k])]))

_get_portion_guidelines(profile) ==
    IF ~Has(profile, "health_category") THEN Err("KeyError")
    ELSE IF profile["health_category"] = "high_risk"
      THEN Ok(D([k \in DOMAIN BaseGuidelines |-> S("Small " \o BaseGuidelines[k])]))
    ELSE IF ~Has(profile, "bmi") THEN Err("KeyError")
    ELSE IF profile["bmi"] >= 3000
      THEN Ok(D([k \in DOMAIN BaseGuidelines |-> S("Moderate " \o BaseGuidelines[k])]))
    ELSE Ok(D([k \in DOMAIN BaseGuidelines |-> S(BaseGuidelines[k])]))

_get_meal_timing_advice(diabetes_status) ==
    IF diabetes_status \in {"type1", "type2"}
    THEN D([frequency |-> S("Eat 3 main meals and 2-3 small snacks"),
            timing    |-> S("Eat every 3-4 hours to maintain stable blood sugar"),
            breakfast |-> S("Within 1 hour of waking up"),
            dinner    |-> S("At least 2-3 hours before bedtime")])
    ELSE D([frequency |-> S("3 main meals with optional healthy snacks"),
            timing    |-> S("Regular meal times help maintain energy levels"),
            breakfast |-> S("Start your day with a balanced meal"),
            dinner    |-> S("Light dinner 2-3 hours before bedtime")])

\* the dict's values are evaluated in the order they are written: the first
\* exception among them is the call's
_generate_fallback_recommendations(patient_profile, regional_foods, nut) ==
    IF \/ ~Has(patient_profile, "dietary_restrictions")
       \/ ~Has(patient_profile, "health_category")
       \/ ~Has(patient_profile, "diabetes_status")
    THEN Err("KeyError")
    ELSE
      With(patient_profile["dietary_restrictions"], LAMBDA dietary_restrictions :
      Then(_create_meal_plan(regional_foods, dietary_restrictions, patient_profile, nut),
           LAMBDA meal_plan :
      Then(_get_preferred_foods(regional_foods, dietary_restrictions),
           LAMBDA preferred_foods :
      Then(_get_foods_to_limit(regional_foods, dietary_restrictions),
           LAMBDA foods_to_limit :
      Then(_get_portion_guidelines(patient_profile),
           LAMBDA portion_guidelines :
        Ok([meal_plan          |-> meal_plan,
            preferred_foods    |-> preferred_foods,
            foods_to_limit     |-> foods_to_limit,
            portion_guidelines |-> portion_guidelines,
            meal_timing        |->
                _get_meal_timing_advice(patient_profile["diabetes_status"]),
            cultural_adaptations |->
                S("Recommendations adapted for traditional Kenyan dietary patterns"),
            health_rationale   |->
                D([health_category |-> S(patient_profile["health_category"]),
                   diabetes_status |-> S(patient_profile["diabetes_status"])])]))))))

\* _get_fallback_section for one of the five required sections
_get_fallback_section(section, patient_profile, regional_foods, nut) ==
    IF section = "meal_plan" THEN
        IF ~Has(patient_profile, "dietary_restrictions") THEN Err("KeyError")
        ELSE _create_meal_plan(regional_foods, patient_profile["dietary_restrictions"],
                               patient_profile, nut)
    ELSE IF section = "preferred_foods" THEN
        IF ~Has(patient_profile, "dietary_restrictions") THEN Err("KeyError")
        ELSE _get_preferred_foods(regional_foods, patient_profile["dietary_restrictions"])
    ELSE IF section = "foods_to_limit" THEN
        IF ~Has(patient_profile, "dietary_restrictions") THEN Err("KeyError")
        ELSE _get_foods_to_limit(regional_foods, patient_profile["dietary_restrictions"])
    ELSE IF section = "portion_guidelines" THEN _get_portion_guidelines(patient_profile)
    ELSE IF section = "meal_timing" THEN
        IF ~Has(patient_profile, "diabetes_status") THEN Err("KeyError")
        ELSE Ok(_get_meal_timing_advice(patient_profile["diabetes_status"]))
    ELSE Ok(D(EmptyDict))

-----------------------------------------------------------------------------
(* FoodRecommendationAgent: the external candidate and its validation      *)

required_sections ==
    <<"meal_plan", "preferred_foods", "foods_to_limit", "portion_guidelines", "meal_timing">>

required_meals == <<"breakfast", "lunch", "dinner", "snacks">>

\* _validate_recommendations calls self._get_fallback_meal, a method the class
\* does not define: evaluating the call raises AttributeError
_get_fallback_meal(meal, regional_foods, patient_profile) == Err("AttributeError")

\* _filter_meal_plan_by_availability with the filtered list thrown away: the
\* slots come back as the candidate listed them
_filter_meal_plan_result_discarded(meal_plan, regional_foods) ==
    IF \E meal \in DOMAIN meal_plan : meal_plan[meal].t # "dict"
    THEN Err("AttributeError")
    ELSE Ok(D(meal_plan))

\* meal_plan is a dict of slots; every slot's .items() is taken, the lists
\* among its values are filtered, every other value is left as it is
_filter_meal_plan_by_availability(meal_plan, regional_foods) ==
    IF \E meal \in DOMAIN meal_plan : meal_plan[meal].t # "dict"
    THEN Err("AttributeError")
    ELSE With(AllAvailable(regional_foods), LAMBDA available :
        Ok(D([meal \in DOMAIN meal_plan |->
            D([category \in DOMAIN meal_plan[meal].v |->
                With(meal_plan[meal].v[category], LAMBDA foods :
                    IF foods.t = "list" THEN L(Select(foods.v, available))
                    ELSE foods)])])))

RECURSIVE FillSections(_, _, _, _, _)
\* the loop over required_sections from index i on: a missing section is set
\* to _get_fallback_section's result
FillSections(i, recommendations, patient_profile, regional_foods, nut) ==
    IF i > Len(required_sections) THEN Ok(recommendations)
    ELSE IF Has(recommendations, required_sections[i])
      THEN FillSections(i + 1, recommendations, patient_profile, regional_foods, nut)
    ELSE Then(_get_fallback_section(required_sections[i], patient_profile,
                                    regional_foods, nut),
              LAMBDA section :
                FillSections(i + 1, Put(recommendations, required_sections[i], section),
                             patient_profile, regional_foods, nut))

\* the loop over required_meals: a dict (or list or string) that lacks a
\* meal has it set to _get_fallback_meal's result; `in` on None or a number
\* raises TypeError
FillMeals(meal_plan, regional_foods, patient_profile) ==
    IF meal_plan.t \in {"null", "num"} THEN Err("TypeError")
    ELSE IF meal_plan.t = "dict" /\ \A i \in 1..Len(required_meals) :
                                        Has(meal_plan.v, required_meals[i])
      THEN Ok(meal_plan)
    ELSE _get_fallback_meal("", regional_foods, patient_profile)

\* recommendations is the parsed answer (a tagged value)
_validate_recommendations(recommendations, patient_profile, regional_foods, nut) ==
    IF recommendations.t # "dict" THEN Err("TypeError")
    ELSE
      Then(FillSections(1, recommendations.v, patient_profile, regional_foods, nut),
           LAMBDA filled :
      Then(FillMeals(filled["meal_plan"], regional_foods, patient_profile),
           LAMBDA meal_plan :
      Then(_filter_meal_plan_by_availability(meal_plan.v, regional_foods),
           LAMBDA filtered :
        Ok(Put(filled, "meal_plan", filtered)))))

\* the catalog generate_recommendations fetches: patient_profile["location"]
\* is read outside the try
RecommendationFoods(patient_profile, cat, order) ==
    IF ~Has(patient_profile, "location") THEN Err("KeyError")
    ELSE Ok(get_regional_foods(patient_profile["location"], cat, order))

\* generate_recommendations whose except branch builds the fallback from the
\* local table's entry instead of the catalog it fetched
generate_recommendations_local_entry(patient_profile, cat, order, nut, rec) ==
    Then(RecommendationFoods(patient_profile, cat, order), LAMBDA regional_foods :
        Try(Then(ParseResponse(rec), LAMBDA recommendations :
                    _validate_recommendations(recommendations, patient_profile,
                                              regional_foods, nut)),
            _generate_fallback_recommendations(patient_profile,
                _get_regional_foods_fallback(patient_profile["location"]), nut)))

\* cat, nut and rec are the external model's answers to the catalog prompt,
\* the nutrition prompts and the recommendation prompt of this call;
\* try: parse, _validate_recommendations;  except Exception: the rule-based
\* recommendation
generate_recommendations(patient_profile, cat, order, nut, rec) ==
    Then(RecommendationFoods(patient_profile, cat, order), LAMBDA regional_foods :
        Try(Then(ParseResponse(rec), LAMBDA recommendations :
                    _validate_recommendations(recommendations, patient_profile,
                                              regional_foods, nut)),
            _generate_fallback_recommendations(patient_profile, regional_foods, nut)))
-----------------------------------------------------------------------------
(* KenyanNutritionAgent: the summary and the report                        *)

\* the characters of the strings the model iterates over
Characters == ("rice" :> <<"r", "i", "c", "e">>)

\* iterating over a value: a list gives its items, a string its characters, a
\* dict its keys (the model holds only empty dicts where it iterates); None
\* and numbers are not iterable
Items(x) ==
    IF x.t = "list" THEN Ok(x.v)
    ELSE IF x.t = "str" THEN Ok(IF x.v \in DOMAIN Characters THEN Characters[x.v] ELSE <<>>)
    ELSE IF x.t = "dict" THEN Ok(<<>>)
    ELSE Err("TypeError")

\* the order in which foods_to_limit.values() iterates: the order of insertion,
\* which is the engine's order in every dict of the model
LimitKeys == <<"high_gi_foods", "high_sodium_foods", "high_fat_foods">>

RECURSIVE LimitedFrom(_, _)
\* [food for foods in foods_to_limit.values() for food in foods], from key i on
LimitedFrom(i, foods_to_limit) ==
    IF i > Len(LimitKeys) THEN Ok(<<>>)
    ELSE IF ~Has(foods_to_limit, LimitKeys[i]) THEN LimitedFrom(i + 1, foods_to_limit)
    ELSE Then(Items(foods_to_limit[LimitKeys[i]]), LAMBDA foods :
         Then(LimitedFrom(i + 1, foods_to_limit), LAMBDA rest : Ok(foods \o rest)))

_get_key_dietary_focus(profile) ==
    IF ~Has(profile, "dietary_restrictions") THEN Err("KeyError")
    ELSE
      LET restrictions == profile["dietary_restrictions"]
          focus(k, text) == IF restrictions[k] THEN <<text>> ELSE <<>>
      IN  IF \E k \in {"limit_sugar", "portion_control", "limit_sodium", "increase_fiber"} :
                 ~Has(restrictions, k)
          THEN Err("KeyError")
          ELSE Ok(LET focus_areas == focus("limit_sugar", "blood sugar control")
                                     \o focus("portion_control", "portion management")
                                     \o focus("limit_sodium", "sodium reduction")
                                     \o focus("increase_fiber", "fiber intake")
                  IN  IF focus_areas # <<>> THEN focus_areas
                      ELSE <<"general balanced nutrition">>)

\* recommendations['meal_timing']['frequency']
MealFrequency(recommendations) ==
    With(recommendations["meal_timing"], LAMBDA meal_timing :
        IF meal_timing.t # "dict" THEN Err("TypeError")
        ELSE IF ~Has(meal_timing.v, "frequency") THEN Err("KeyError")
        ELSE Ok(meal_timing.v["frequency"]))

\* recommendations['preferred_foods']['lean_proteins'][:3]
PrimaryFoods(recommendations) ==
    With(recommendations["preferred_foods"], LAMBDA preferred_foods :
        IF preferred_foods.t # "dict" THEN Err("TypeError")
        ELSE IF ~Has(preferred_foods.v, "lean_proteins") THEN Err("KeyError")
        ELSE IF preferred_foods.v["lean_proteins"].t \notin {"list", "str"}
          THEN Err("TypeError")
        ELSE Ok(Prefix(Items(preferred_foods.v["lean_proteins"]).val, 3)))

\* [...][:3] over recommendations['foods_to_limit'].values()
FoodsToLimit(recommendations) ==
    With(recommendations["foods_to_limit"], LAMBDA foods_to_limit :
        IF foods_to_limit.t # "dict" THEN Err("AttributeError")
        ELSE Then(LimitedFrom(1, foods_to_limit.v),
                  LAMBDA limited : Ok(Prefix(limited, 3))))

BmiCategory(bmi) ==
    IF bmi >= 3000 THEN "Obese"
    ELSE IF bmi >= 2500 THEN "Overweight"
    ELSE IF bmi < 1850 THEN "Underweight"
    ELSE "Normal"

\* the text fields of the summary are kept as the values they are formatted
\* from; the dict's values are evaluated in the order they are written
_generate_summary(profile, recommendations) ==
    IF ~Has(profile, "health_category") \/ ~Has(profile, "diabetes_status")
    THEN Err("KeyError")
    ELSE
      Then(_get_key_dietary_focus(profile), LAMBDA key_dietary_focus :
      Then(MealFrequency(recommendations), LAMBDA meal_frequency :
      Then(PrimaryFoods(recommendations), LAMBDA primary_foods_to_include :
      Then(FoodsToLimit(recommendations), LAMBDA foods_to_limit :
        Ok([health_overview |-> <<profile["health_category"],
                                  BmiCategory(profile["bmi"]),
                                  profile["bmi"], profile["diabetes_status"]>>,
            key_dietary_focus        |-> key_dietary_focus,
            meal_frequency           |-> meal_frequency,
            primary_foods_to_include |-> primary_foods_to_include,
            foods_to_limit           |-> foods_to_limit])))))

\* complete_report of get_nutrition_recommendations, collect_feedback being False
complete_report(patient_profile, regional_foods, recommendations) ==
    Then(_generate_summary(patient_profile, recommendations), LAMBDA summary :
        Ok([patient_profile |-> patient_profile,
            regional_foods  |-> regional_foods,
            recommendations |-> recommendations,
            summary         |-> summary]))

-----------------------------------------------------------------------------
(* The external model's answers to the catalog, nutrition and              *)
(* recommendation prompts                                                  *)

\* the longest list of foods an answer to the catalog prompt holds
MaxAiItems == 2

\* foods an answer may name: one no table knows, one the nutrition table
\* knows, one more that no table knows
AiFoodPool == <<"quinoa", "rice", "teff", "amaranth">>

AiFoods(n) == Prefix(AiFoodPool, n)

\* JSON bodies answering the catalog prompt: every category or only grains
\* extended by 1..MaxAiItems foods, no category, a category that is no list,
\* a key that is no category, no object at all
CatalogBodies ==
    [n \in 1..MaxAiItems |-> D([c \in Range(Categories) |-> L(AiFoods(n))])]
    \o [n \in 1..MaxAiItems |-> D([grains |-> L(AiFoods(n))])]
    \o << D(EmptyDict),
          D([grains |-> S("quinoa")]),
          D([spices |-> L(<<"quinoa">>)]),
          L(<<"quinoa">>) >>

CatalogAnswers ==
    <<Raises, Plain(Garbage), Text("json", TRUE, CatalogBodies[1]),
      Text("json", FALSE, CatalogBodies[1])>>
    \o [i \in 1..Len(CatalogBodies) |-> Plain(CatalogBodies[i])]

\* answers to a nutrition prompt; one call of generate_recommendations gets
\* the same answer for every food it asks about
NutritionAnswers ==
    << Raises,
       Plain(D(EmptyDict)),
       Plain(D([gi |-> N(10)])),
       Plain(D([gi |-> N(90), calories_per_100g |-> N(120)])),
       Plain(D([gi |-> JNull])),
       Plain(D([gi |-> S("low")])) >>

\* a meal slot as the prompt asks for it; "quinoa" is in no local table
CandidateMeal(grains) ==
    D([grains |-> L(grains), proteins |-> L(<<"fish", "eggs">>),
       vegetables |-> L(<<"kale", "quinoa">>), notes |-> S("quinoa porridge")])

CandidatePlan ==
    [breakfast |-> CandidateMeal(<<"quinoa", "maize">>),
     lunch     |-> CandidateMeal(<<"rice", "teff">>),
     dinner    |-> CandidateMeal(<<"maize">>),
     snacks    |-> D([fruits |-> L(<<"bananas", "dates">>)])]

\* the answer the recommendation prompt asks for
Candidate ==
    [meal_plan          |-> D(CandidatePlan),
     preferred_foods    |-> D([high_fiber    |-> L(<<"quinoa">>),
                               low_sodium    |-> L(<<"kale">>),
                               lean_proteins |-> L(<<"tofu", "fish">>),
                               complex_carbs |-> L(<<"teff">>)]),
     foods_to_limit     |-> D([high_gi_foods     |-> L(<<"white_bread">>),
                               high_sodium_foods |-> L(<<"crisps">>),
                               high_fat_foods    |-> L(<<>>)]),
     portion_guidelines |-> D([grains |-> S("one fist")]),
     meal_timing        |-> D([frequency |-> S("5 small meals")]),
     cultural_adaptations |-> S("ugali with sukuma wiki"),
     health_rationale   |-> S("low glycemic load")]

\* JSON bodies answering the recommendation prompt: the candidate asked for,
\* one without its extra fields, candidates lacking a meal slot, lacking
\* sections, with a slot or a meal plan or a section that is no dict, with a
\* further slot, an empty object, no object at all
RecommendationBodies ==
    << D(Candidate),
       D(Without(Candidate, {"cultural_adaptations", "health_rationale"})),
       D([Candidate EXCEPT !.meal_plan = D(Without(CandidatePlan, {"snacks"}))]),
       D([Candidate EXCEPT !.meal_plan = D(EmptyDict)]),
       D(Without(Candidate, {"preferred_foods", "meal_timing"})),
       D(Without(Candidate, {"foods_to_limit", "portion_guidelines"})),
       D(Without(Candidate, {"meal_plan"})),
       D([Candidate EXCEPT !.meal_plan = D([CandidatePlan EXCEPT !.lunch = JNull])]),
       D([Candidate EXCEPT !.meal_plan = L(<<"breakfast", "lunch">>)]),
       D([Candidate EXCEPT !.meal_plan = JNull]),
       D([Candidate EXCEPT !.meal_plan =
              D(Put(CandidatePlan, "brunch", CandidateMeal(<<"quinoa">>)))]),
       D([Candidate EXCEPT !.meal_timing = S("eat regularly"),
                           !.foods_to_limit = D([high_gi_foods |-> S("rice")])]),
       D([Candidate EXCEPT !.preferred_foods = D(EmptyDict),
                           !.foods_to_limit = D([high_gi_foods |-> JNull])]),
       D(EmptyDict),
       L(<<>>) >>

RecommendationAnswers ==
    <<Raises>>
    \o Wrappings(RecommendationBodies[1])
    \o [i \in 1..Len(RecommendationBodies) |-> Plain(RecommendationBodies[i])]
    \o <<Plain(Garbage)>>

-----------------------------------------------------------------------------
(* Patients                                                                *)

\* the demo patient of main(), a healthy patient on the coast, an obese
\* patient in the north east, diabetic patients in a place no table knows and
\* at the lake, and a patient whose height is 0
Patients ==
    << Request(45, 7800, 168, 135, BP(140, 85), "prediabetes", "nairobi"),
       Request(30, 6000, 170, 90, BP(115, 75), "none", "Mombasa"),
       Request(52, 11000, 165, 98, BP(118, 76), "none", "GARISSA"),
       Request(19, 5500, 172, 180, BP(110, 70), "type1", "atlantis"),
       Request(61, 8200, 175, 150, BP(150, 95), "type2", "kisumu"),
       Request(40, 7000, 0, 95, BP(120, 80), "none", "nairobi") >>

-----------------------------------------------------------------------------
(* The arguments the methods are called on when called on their own        *)

\* locations: alias keys of every region in lower and mixed case, region
\* ids in lower and mixed case, names no table knows, the empty string
CallLocations ==
    {"nairobi", "NAIROBI", "mombasa", "Mombasa", "kisumu", "machakos", "garissa",
     "GARISSA", "kisii", "nakuru", "central", "coastal", "Coastal", "western",
     "northern", "eastern", "nyanza", "rift_valley", "Rift_Valley", "atlantis",
     "Atlantis", ""}

RegionCalls ==
    {[op |-> "_get_regional_foods_fallback", location |-> l] : l \in CallLocations}

\* food ids: in the nutrition table (gi 73, 15, 55) and in no table
CallFoods == {"rice", "kale", "oats", "quinoa", "teff"}

\* the record the nutrition prompt asks for
AiNutrition ==
    D([calories_per_100g |-> N(120), carbs |-> N(210), protein |-> N(44),
       fat |-> N(19), fiber |-> N(28), gi |-> N(53),
       cultural_context |-> S("eaten as porridge")])

\* answers to one nutrition prompt: the ones generate_recommendations is run
\* against, the record asked for in every wrapping, text that is no JSON, a
\* JSON list
CallNutritionAnswers ==
    NutritionAnswers \o Wrappings(AiNutrition)
    \o <<Plain(AiNutrition), Plain(Garbage), Plain(L(<<>>))>>

NutritionCall(f, i) ==
    [op |-> "get_nutritional_info", food_item |-> f, resp |-> CallNutritionAnswers[i]]

\* the requests a running agent is served one after another: lookups for an
\* alias, a mixed-case alias, a region id and an unknown place; profiles of a
\* patient on the coast and of a diabetic patient in an unknown place
ServeLocations == {"nairobi", "Mombasa", "coastal", "atlantis"}

ServeCatalogAnswers ==
    <<Raises, Plain(CatalogBodies[1]), Plain(CatalogBodies[MaxAiItems + 1]),
      Plain(D(EmptyDict))>>

ServePatients == <<Patients[2], Patients[4]>>

ServeFoods == {"rice", "quinoa"}

ServeRecommendationAnswers ==
    <<Raises, Plain(RecommendationBodies[1]), Plain(RecommendationBodies[3])>>


\* inputs of categorize_health_status around every threshold: bmi 24.99, 25
\* and 30, blood sugar 100, 101 and 127, blood pressure normal, elevated and
\* hypertensive, diabetes status none, prediabetes and type2
RiskInputs ==
    [age : {45}, bmi : {Hundredths(2499), Hundredths(2500), Hundredths(3000)},
     blood_sugar : {100, 101, 127},
     blood_pressure : {BP(120, 70), BP(130, 70), BP(120, 90)},
     diabetes_status : {"none", "prediabetes", "type2"}]

\* categorize_health_status called on two inputs, to compare the results
CategorizeCalls ==
    {[op |-> "categorize_health_status", x |-> x, y |-> y] :
        x \in RiskInputs, y \in RiskInputs}

\* the longest list _filter_by_gi is called on
MaxFoods == 3

\* foods of the lists: glycemic index 73, 15, 55 and 60 in the nutrition
\* table, and a food the table lacks
FilterFoods == {"rice", "kale", "oats", "maize", "quinoa"}

FoodLists == UNION {[1..k -> FilterFoods] : k \in 0..MaxFoods}

FilterCall(foods, limit_sugar, n) ==
    [op |-> "_filter_by_gi", foods |-> foods, limit_sugar |-> limit_sugar,
     resp |-> NutritionAnswers[n]]

MealPlanCall(region, limit_sugar, n) ==
    [op |-> "_create_meal_plan", region |-> region, limit_sugar |-> limit_sugar,
     resp |-> NutritionAnswers[n]]

\* profiles the deterministic recommendation is built for: the rule-built
\* profile of a patient with each health category, a bmi below 30, just
\* below 30 and 30, a diabetes status with and without the frequent-meal
\* advice, and every setting of the three restrictions the build reads
EngineProfile(health_category, bmi, diabetes_status, limit_sugar, increase_fiber, limit_fat) ==
    [_fallback_profile_creation(Patients[2]).val
        EXCEPT !.health_category = health_category,
               !.bmi = bmi,
               !.diabetes_status = diabetes_status,
               !.dietary_restrictions =
                   [AllRestrictions(FALSE)
                       EXCEPT !.limit_sugar = limit_sugar,
                              !.increase_fiber = increase_fiber,
                              !.limit_sodium = limit_fat,
                              !.portion_control = limit_fat,
                              !.limit_saturated_fat = limit_fat]]

EngineBmis == {2200, 2999, 3000}

EngineStatuses == {"none", "type2"}

\* the nutrition answers of a build: the call failing, and a low gi
EngineNutritionAnswers == <<NutritionAnswers[1], NutritionAnswers[3]>>

EngineCall(region, profile, n) ==
    [op |-> "_generate_fallback_recommendations", region |-> region,
     patient_profile |-> profile, resp |-> EngineNutritionAnswers[n]]
-----------------------------------------------------------------------------
(* Properties of create_patient_profile                                    *)

ProfileCalled == svc.profile.kind # "none"

ValidVitals(req) == req.age >= 0 /\ req.weight > 0 /\ req.height > 0

\* the external path produced the profile: the answer parsed to an object
\* and _validate_profile returned
ExternalProfilePath ==
    /\ ProfileCalled
    /\ ParseResponse(svc.profile).ok
    /\ _validate_profile(ParseResponse(svc.profile).val, request).ok

AiProfileDict == ParseResponse(svc.profile).val.v

Abs(x) == IF x >= 0 THEN x ELSE -x

\* C7: create_patient_profile fails with InvalidInputError whenever
\* weight <= 0, height <= 0 or age < 0, whatever the external model answers,
\* and returns no profile.
C7_InvalidInputRejected ==
    (ProfileCalled /\ ~ValidVitals(request))
        => (~profile_out.ok /\ profile_out.exc = "InvalidInputError")

\* C8: for valid age, weight and height the calorie_needs of the returned
\* profile lies in 800..4000.
C8_CalorieClamp ==
    (ProfileCalled /\ ValidVitals(request) /\ profile_out.ok)
        => (800 <= profile_out.val["calorie_needs"]
            /\ profile_out.val["calorie_needs"] <= 4000)

\* C9: for weight > 0 and height > 0 the bmi of the returned profile is
\* weight / height^2 rounded to two decimals (the nearest hundredth, a tie
\* going to the even one), whatever bmi the external model supplied and
\* whichever path produced the profile.
C9_BmiInvariant ==
    (ProfileCalled /\ request.weight > 0 /\ request.height > 0)
        => /\ profile_out.ok
           /\ LET b == profile_out.val["bmi"]
                  n == request.weight * 10000
                  d == request.height * request.height
              IN  /\ 2 * Abs(b * d - n) <= d
                  /\ (2 * Abs(b * d - n) = d => b % 2 = 0)

\* C9 happens: the external path, the model having supplied another bmi
C9_Witness ==
    /\ ExternalProfilePath
    /\ request.weight > 0 /\ request.height > 0
    /\ Has(AiProfileDict, "bmi")
    /\ AiProfileDict["bmi"] # calculate_bmi(request.weight, request.height)
    /\ profile_out.val["bmi"] = 2764

\* the number of risk-factor groups that are set, each counting one
GroupCount(bmi, req) ==
    (IF bmi.num >= 25 * bmi.den THEN 1 ELSE 0)
    + (IF req.blood_sugar > 100 THEN 1 ELSE 0)
    + (IF \/ req.blood_pressure.systolic >= 130
          \/ req.blood_pressure.diastolic >= 80 THEN 1 ELSE 0)
    + (IF req.diabetes_status \in {"type1", "type2", "prediabetes"} THEN 1 ELSE 0)

CategoryOfCount(n) ==
    IF n >= 3 THEN "high_risk" ELSE IF n >= 1 THEN "moderate_risk" ELSE "low_risk"

AiCategoryKept ==
    /\ ExternalProfilePath
    /\ Has(AiProfileDict, "health_category")
    /\ AiProfileDict["health_category"] \in ValidCategories

-----------------------------------------------------------------------------
(* Properties of generate_recommendations and of the pipeline              *)

RecommendCalled == svc.rec.kind # "none"

RECURSIVE Same(_, _)
\* equality of two JSON values
Same(a, b) ==
    /\ a.t = b.t
    /\ IF a.t = "dict"
       THEN /\ DOMAIN a.v = DOMAIN b.v
            /\ \A k \in DOMAIN a.v : Same(a.v[k], b.v[k])
       ELSE a.v = b.v

\* a profile with every field the profile agent's own rules fill in
WellFormedProfile(p) ==
    /\ {"age", "weight", "height", "bmi", "blood_sugar", "blood_pressure",
        "diabetes_status", "location", "health_category", "dietary_restrictions",
        "calorie_needs"} \subseteq DOMAIN p
    /\ DOMAIN p["dietary_restrictions"] = DOMAIN AllRestrictions(TRUE)

CompleteRecommendation(r) ==
    /\ Range(required_sections) \subseteq DOMAIN r
    /\ r["meal_plan"].t = "dict"
    /\ Range(required_meals) \subseteq DOMAIN r["meal_plan"].v

\* C1: for every well-formed profile and every behaviour of the external
\* model, generate_recommendations returns without raising, and what it
\* returns has the five sections and a meal plan with the four slots.
C1_AlwaysReturnsComplete ==
    (RecommendCalled /\ WellFormedProfile(profile_out.val))
        => (recs_out.ok /\ CompleteRecommendation(recs_out.val))

ValidInput(req) ==
    ValidVitals(req) /\ req.diabetes_status \in DiabetesStatuses

\* C2: for every structurally valid input and every behaviour of the
\* external model at each call, get_nutrition_recommendations returns a
\* complete report: no step of the pipeline raises.
C2_ValidRequestGetsReport ==
    ValidInput(request) => pc # "raised"

\* the food ids listed in the list-valued categories of the slots of a meal plan
FoodsOfPlan(meal_plan) ==
    UNION {Range(meal_plan.v[meal].v[category].v) :
             <<meal, category>> \in
                {<<m, c>> \in (DOMAIN meal_plan.v) \X
                      UNION {DOMAIN meal_plan.v[m].v : m \in DOMAIN meal_plan.v} :
                   /\ c \in DOMAIN meal_plan.v[m].v
                   /\ meal_plan.v[m].v[c].t = "list"}}

CandidateAccepted ==
    /\ RecommendCalled
    /\ recs_foods.ok
    /\ ParseResponse(svc.rec).ok
    /\ _validate_recommendations(ParseResponse(svc.rec).val, profile_out.val,
                                 recs_foods.val, svc.nutrition).ok

EngineSection(section) ==
    _get_fallback_section(section, profile_out.val, recs_foods.val, svc.nutrition)

\* C4: when the external call fails or its text does not parse, the returned
\* recommendation's five sections are those of _create_meal_plan,
\* _get_preferred_foods, _get_foods_to_limit, _get_portion_guidelines and
\* _get_meal_timing_advice for the same profile and catalog.
C4_FallbackIsEngine ==
    (RecommendCalled /\ ~ParseResponse(svc.rec).ok /\ recs_out.ok)
        => LET restrictions == profile_out.val["dietary_restrictions"]
           IN  /\ recs_out.val["meal_plan"] =
                     _create_meal_plan(recs_foods.val, restrictions, profile_out.val,
                                       svc.nutrition).val
               /\ recs_out.val["preferred_foods"] =
                     _get_preferred_foods(recs_foods.val, restrictions).val
               /\ recs_out.val["foods_to_limit"] =
                     _get_foods_to_limit(recs_foods.val, restrictions).val
               /\ recs_out.val["portion_guidelines"] =
                     _get_portion_guidelines(profile_out.val).val
               /\ recs_out.val["meal_timing"] =
                     _get_meal_timing_advice(profile_out.val["diabetes_status"])

\* C4 happens: fenced text cut short does not parse, the catalog answer
\* extended the region's entry, and a recommendation is returned
C4_Witness ==
    /\ RecommendCalled /\ recs_out.ok
    /\ svc.rec.kind = "text" /\ svc.rec.body.t = "dict" /\ ~ParseResponse(svc.rec).ok
    /\ "quinoa" \in AllAvailable(recs_foods.val)
    /\ recs_out.val["meal_plan"].v["lunch"].v["grains"] = L(<<"quinoa">>)

\* the recommendation answer parsed to an object with a dict meal plan
CandidatePlanParsed ==
    /\ RecommendCalled
    /\ ParseResponse(svc.rec).ok
    /\ ParseResponse(svc.rec).val.t = "dict"
    /\ Has(ParseResponse(svc.rec).val.v, "meal_plan")
    /\ ParseResponse(svc.rec).val.v["meal_plan"].t = "dict"

ParsedCandidate == ParseResponse(svc.rec).val.v

\* C5: when the parsed candidate's meal plan lacks a required slot, only that
\* slot is replaced: the candidate's other sections are in the result as
\* they were, and its other slots are the result's slots.
C5_OnlyMissingSlotReplaced ==
    (/\ CandidatePlanParsed
     /\ \E meal \in Range(required_meals) : ~Has(ParsedCandidate["meal_plan"].v, meal)
     /\ recs_out.ok)
        => /\ \A section \in Range(required_sections) \ {"meal_plan"} :
                Has(ParsedCandidate, section)
                    => Same(recs_out.val[section], ParsedCandidate[section])
           /\ \A meal \in DOMAIN ParsedCandidate["meal_plan"].v :
                /\ Has(recs_out.val["meal_plan"].v, meal)
                /\ DOMAIN recs_out.val["meal_plan"].v[meal].v
                     = DOMAIN ParsedCandidate["meal_plan"].v[meal].v

\* C6: for a parsed candidate whose meal plan has the four slots, each of
\* the other four sections of the result is the candidate's own when the
\* candidate has it and the engine's when it has not; a missing meal plan
\* is the engine's meal plan.
C6_SectionMerge ==
    (/\ RecommendCalled
     /\ ParseResponse(svc.rec).ok
     /\ ParseResponse(svc.rec).val.t = "dict"
     /\ \/ ~Has(ParsedCandidate, "meal_plan")
        \/ /\ ParsedCandidate["meal_plan"].t = "dict"
           /\ Range(required_meals) \subseteq DOMAIN ParsedCandidate["meal_plan"].v
     /\ recs_out.ok)
        => /\ \A section \in Range(required_sections) \ {"meal_plan"} :
                IF Has(ParsedCandidate, section)
                THEN Same(recs_out.val[section], ParsedCandidate[section])
                ELSE Same(recs_out.val[section], EngineSection(section).val)
           /\ ~Has(ParsedCandidate, "meal_plan")
                => Same(recs_out.val["meal_plan"], EngineSection("meal_plan").val)

-----------------------------------------------------------------------------
(* Properties of the derived fields, the local tables and the engine       *)

\* C11: in every profile returned for valid vitals limit_sugar is true iff diabetes_status is
\* type1, type2 or prediabetes, increase_fiber is true iff diabetes_status is
\* type2 or prediabetes, and limit_sodium, portion_control and
\* limit_saturated_fat are each true iff health_category is high_risk or
\* moderate_risk.
C11_RestrictionsDerived ==
    (ProfileCalled /\ ValidVitals(request) /\ profile_out.ok)
        => /\ {"dietary_restrictions", "diabetes_status", "health_category"}
                  \subseteq DOMAIN profile_out.val
           /\ DOMAIN profile_out.val["dietary_restrictions"]
                  = DOMAIN AllRestrictions(TRUE)
           /\ LET r == profile_out.val["dietary_restrictions"]
                  s == profile_out.val["diabetes_status"]
                  c == profile_out.val["health_category"]
              IN  /\ r["limit_sugar"] = (s \in {"type1", "type2", "prediabetes"})
                  /\ r["increase_fiber"] = (s \in {"type2", "prediabetes"})
                  /\ \A k \in {"limit_sodium", "portion_control", "limit_saturated_fat"} :
                        r[k] = (c \in {"high_risk", "moderate_risk"})

Returned(op) == pc = "returned" /\ call.op = op

RegionIds == DOMAIN InitialRegionalFoods

\* C12 as stated: locations that differ only in letter case get the same
\* entry, a location whose lower-cased form is a key of the alias table gets
\* the mapped region's entry, and every other location gets the entry of
\* "central".
C12_RegionResolution ==
    Returned("_get_regional_foods_fallback")
        => /\ ret.ok
           /\ \A l \in CallLocations :
                 Lower(l) = Lower(call.location)
                     => ret.val = _get_regional_foods_fallback(l)
           /\ ret.val = IF Lower(call.location) \in DOMAIN region_mapping
                        THEN InitialRegionalFoods[region_mapping[Lower(call.location)]]
                        ELSE InitialRegionalFoods["central"]

\* C12 amended: as stated, except that a location whose lower-cased form is
\* no alias but a region id gets that region's entry; "central" is the entry
\* of the locations that are neither.
C12_RegionResolutionOrRegionId ==
    Returned("_get_regional_foods_fallback")
        => /\ ret.ok
           /\ \A l \in CallLocations :
                 Lower(l) = Lower(call.location)
                     => ret.val = _get_regional_foods_fallback(l)
           /\ ret.val = IF Lower(call.location) \in DOMAIN region_mapping
                        THEN InitialRegionalFoods[region_mapping[Lower(call.location)]]
                        ELSE IF Lower(call.location) \in RegionIds
                        THEN InitialRegionalFoods[Lower(call.location)]
                        ELSE InitialRegionalFoods["central"]

\* C12 happens: a mixed-case alias resolved to its region, not the default
C12_Witness ==
    /\ Returned("_get_regional_foods_fallback")
    /\ call.location = "Mombasa"
    /\ ret.val = InitialRegionalFoods["coastal"]
    /\ ret.val # InitialRegionalFoods["central"]

\* the answer to the nutrition prompt parsed to a JSON object
AnsweredObject(resp) == ParseResponse(resp).ok /\ ParseResponse(resp).val.t = "dict"

C14_TablesReadOnly ==
    /\ db_regional_foods = InitialRegionalFoods
    /\ call.op = "get_regional_foods"
          => ret = Ok(get_regional_foods(call.location, call.resp, call.order))
    /\ call.op = "generate_recommendations"
          => ret = generate_recommendations(call.patient_profile, call.cat, call.order,
                                            call.nut, call.rec)

\* C14 happens: a lookup whose answer named a food of no table has been
\* served from the table's own entry, and the entry is as it was
C14_Witness ==
    /\ call.op = "get_regional_foods"
    /\ call.location = "Mombasa"
    /\ "quinoa" \in Range(ret.val["grains"])
    /\ "quinoa" \notin Range(db_regional_foods["coastal"]["grains"])
    /\ db_regional_foods = InitialRegionalFoods

\* C15: the deterministic build is a function of the profile and the catalog
\* alone and never raises: when generate_recommendations falls back to it for
\* a well-formed profile, what it returns is what the build returns for the
\* same profile and catalog under every answer of the external model to the
\* nutrition prompts.
C15_DeterministicBuild ==
    (/\ RecommendCalled /\ ~ParseResponse(svc.rec).ok
     /\ WellFormedProfile(profile_out.val) /\ recs_foods.ok)
        => /\ recs_out.ok
           /\ \A n \in 1..Len(NutritionAnswers) :
                 With(_generate_fallback_recommendations(profile_out.val, recs_foods.val,
                                                         NutritionAnswers[n]),
                      LAMBDA other : other.ok /\ Same(D(other.val), D(recs_out.val)))


\* the risk-factor groups that are set in an input of categorize_health_status
SetGroups(x) ==
    (IF x.bmi.num >= 25 * x.bmi.den THEN {"bmi"} ELSE {})
    \cup (IF x.blood_sugar > 100 THEN {"blood_sugar"} ELSE {})
    \cup (IF \/ x.blood_pressure.systolic >= 130
             \/ x.blood_pressure.diastolic >= 80 THEN {"blood_pressure"} ELSE {})
    \cup (IF x.diabetes_status \in {"type1", "type2", "prediabetes"}
          THEN {"diabetes"} ELSE {})

RiskRank(category) ==
    CASE category = "low_risk" -> 0
      [] category = "moderate_risk" -> 1
      [] category = "high_risk" -> 2

\* y has one more group set than x, the other three being set or not as in x
OneMoreGroup(x, y) ==
    /\ SetGroups(x) \subseteq SetGroups(y)
    /\ Cardinality(SetGroups(y)) = Cardinality(SetGroups(x)) + 1

\* C16: when the inputs of categorize_health_status change so that one more
\* of the four risk-factor groups is set and the other three stay as they
\* were, the category returned is not lower (low_risk < moderate_risk <
\* high_risk).
C16_RiskMonotone ==
    (Returned("categorize_health_status") /\ OneMoreGroup(call.x, call.y))
        => RiskRank(ret.val[2]) >= RiskRank(ret.val[1])

\* C16 happens: a fourth group is set on top of three, and a third on top of
\* two raises the category; here the first
C16_Witness ==
    /\ Returned("categorize_health_status")
    /\ OneMoreGroup(call.x, call.y)
    /\ Cardinality(SetGroups(call.x)) = 3
    /\ ret.val = <<"high_risk", "high_risk">>

\* C17: for the patient of the demonstration run (45 years, 78 kg, 1.68 m,
\* blood sugar 135, blood pressure 140/85, prediabetes, nairobi) the profile
\* has bmi 27.64, the four risk factors overweight, high_blood_sugar,
\* hypertension and prediabetes give health_category high_risk, limit_sugar,
\* increase_fiber and limit_sodium are true, and the location resolves to
\* the catalog entry of the central region.
C17_DemoScenario ==
    (request = Patients[1] /\ ProfileCalled /\ profile_out.ok)
        => /\ {"bmi", "health_category", "dietary_restrictions"}
                  \subseteq DOMAIN profile_out.val
           /\ profile_out.val["bmi"] = 2764
           /\ risk_factors(Hundredths(profile_out.val["bmi"]), request.blood_sugar,
                           request.blood_pressure, request.diabetes_status)
                = <<"overweight", "high_blood_sugar", "hypertension", "prediabetes">>
           /\ profile_out.val["health_category"] = "high_risk"
           /\ {"limit_sugar", "increase_fiber", "limit_sodium"}
                  \subseteq DOMAIN profile_out.val["dietary_restrictions"]
           /\ \A k \in {"limit_sugar", "increase_fiber", "limit_sodium"} :
                 profile_out.val["dietary_restrictions"][k] = TRUE
           /\ _get_regional_foods_fallback(request.location)
                = InitialRegionalFoods["central"]

\* the glycemic index of a food: the gi of its nutrition record, the neutral
\* 50 when the record has none
GlycemicIndex(food, resp) == Get(get_nutritional_info(food, resp), "gi", N(50))

\* the foods of a list whose glycemic index is a number below 55
LowGiFoods(foods, resp) ==
    {foods[i] : i \in {j \in 1..Len(foods) :
                         /\ GlycemicIndex(foods[j], resp).t = "num"
                         /\ GlycemicIndex(foods[j], resp).v < 55}}

\* C18: _filter_by_gi returns foods unchanged when limit_sugar is false;
\* when limit_sugar is true and some item has glycemic index < 55 it returns
\* the items with glycemic index < 55, in their order, and no other item.
C18_GiFilter ==
    Returned("_filter_by_gi")
        => IF ~call.limit_sugar THEN ret = Ok(call.foods)
           ELSE LowGiFoods(call.foods, call.resp) # {}
                    => ret = Ok(Select(call.foods, LowGiFoods(call.foods, call.resp)))

\* every item of the list has a glycemic index of 55 or more
AllHighGi(foods, resp) ==
    \A i \in 1..Len(foods) :
        /\ GlycemicIndex(foods[i], resp).t = "num"
        /\ GlycemicIndex(foods[i], resp).v >= 55

\* C19: when limit_sugar is true and every item of the list has glycemic
\* index >= 55, _filter_by_gi returns the first two items of the list, in
\* their order (the whole list when it has fewer than two).
C19_EmptyFilterFallback ==
    (Returned("_filter_by_gi") /\ call.limit_sugar /\ AllHighGi(call.foods, call.resp))
        => /\ ret.ok
           /\ ret.val = IF Len(call.foods) < 2 THEN call.foods
                        ELSE <<call.foods[1], call.foods[2]>>

\* C19 happens: three foods of glycemic index 73, 55 and 60, the first two
\* returned
C19_Witness ==
    /\ Returned("_filter_by_gi") /\ call.limit_sugar
    /\ call.foods = <<"rice", "oats", "maize">>
    /\ AllHighGi(call.foods, call.resp)
    /\ ret = Ok(<<"rice", "oats">>)

\* the catalog category each slot of the meal plan is filled from;
\* breakfast vegetables is filled from none
SlotSource ==
    [breakfast |-> [grains |-> "grains", proteins |-> "proteins", fruits |-> "fruits"],
     lunch     |-> [grains |-> "grains", proteins |-> "proteins",
                    vegetables |-> "vegetables", legumes |-> "legumes"],
     dinner    |-> [grains |-> "grains", proteins |-> "proteins",
                    vegetables |-> "vegetables"],
     snacks    |-> [fruits |-> "fruits", nuts |-> "legumes"]]

\* a slot of the returned meal plan
Slot(meal, category) == ret.val.v[meal].v[category].v

\* C20: for every region of the static catalog and limit_sugar true or
\* false, every slot of the meal plan that is filled from a non-empty
\* catalog category is non-empty.
C20_SlotsNeverEmpty ==
    Returned("_create_meal_plan")
        => /\ ret.ok
           /\ \A meal \in DOMAIN SlotSource : \A category \in DOMAIN SlotSource[meal] :
                 InitialRegionalFoods[call.region][SlotSource[meal][category]] # <<>>
                     => Slot(meal, category) # <<>>

\* the slots filled by picking named foods out of a category
PickedSlots == {<<"breakfast", "proteins">>, <<"snacks", "nuts">>}

\* C20 amended: for every region of the static catalog and limit_sugar true
\* or false, every slot filled through the glycemic-index filter or by a
\* prefix of a non-empty catalog category is non-empty (breakfast grains and
\* fruits, snack fruits, every slot of lunch and dinner); breakfast proteins
\* is non-empty only where the region's proteins hold eggs or milk, snack
\* nuts only where its legumes hold a food named nuts.
C20_FilteredSlotsNeverEmpty ==
    Returned("_create_meal_plan")
        => /\ ret.ok
           /\ \A meal \in DOMAIN SlotSource : \A category \in DOMAIN SlotSource[meal] :
                 (/\ <<meal, category>> \notin PickedSlots
                  /\ InitialRegionalFoods[call.region][SlotSource[meal][category]] # <<>>)
                     => Slot(meal, category) # <<>>
           /\ Slot("breakfast", "proteins") # <<>>
                 <=> Range(InitialRegionalFoods[call.region]["proteins"])
                         \cap {"eggs", "milk"} # {}
           /\ Slot("snacks", "nuts") # <<>>
                 <=> Range(InitialRegionalFoods[call.region]["legumes"])
                         \cap NutNamed # {}

\* C20 happens: limit_sugar is true, no grain of the region has glycemic
\* index below 55, and breakfast grains holds the region's first two grains
C20_Witness ==
    /\ Returned("_create_meal_plan") /\ call.limit_sugar /\ ret.ok
    /\ LowGiFoods(InitialRegionalFoods[call.region]["grains"], call.resp) = {}
    /\ Len(InitialRegionalFoods[call.region]["grains"]) > 2
    /\ Slot("breakfast", "grains")
         = Prefix(InitialRegionalFoods[call.region]["grains"], 2)

\* s is the first items of q, at most n of them
LeadingItems(s, q, n) == s = Prefix(q, n)

\* what the glycemic-index filter leaves of a category: the category itself
\* when limit_sugar is false, else its items of glycemic index < 55, else
\* its first two items
GiFiltered(foods, limit_sugar, resp) ==
    IF ~limit_sugar THEN foods
    ELSE IF LowGiFoods(foods, resp) # {} THEN Select(foods, LowGiFoods(foods, resp))
    ELSE Prefix(foods, 2)

\* C21: in every deterministic meal plan breakfast has at most 2 grains, at
\* most 1 protein which is eggs or milk, and at most 2 fruits; lunch at most
\* 1 grain, 1 protein, 3 vegetables and 1 legume; dinner at most 1 grain, 1
\* protein and 2 vegetables; snacks at most 2 fruits and 1 nut-bearing
\* legume; and each list is the leading items, in catalog order, of the
\* (filtered where applicable) category it is drawn from.
C21_CapsAndOrder ==
    (Returned("_create_meal_plan") /\ ret.ok)
        => LET rf == InitialRegionalFoods[call.region]
               filtered(c) == GiFiltered(rf[c], call.limit_sugar, call.resp)
           IN  /\ LeadingItems(Slot("breakfast", "grains"), filtered("grains"), 2)
               /\ LeadingItems(Slot("breakfast", "proteins"),
                               Select(rf["proteins"], {"eggs", "milk"}), 1)
               /\ LeadingItems(Slot("breakfast", "fruits"), filtered("fruits"), 2)
               /\ LeadingItems(Slot("lunch", "grains"), rf["grains"], 1)
               /\ LeadingItems(Slot("lunch", "proteins"), rf["proteins"], 1)
               /\ LeadingItems(Slot("lunch", "vegetables"), rf["vegetables"], 3)
               /\ LeadingItems(Slot("lunch", "legumes"), rf["legumes"], 1)
               /\ LeadingItems(Slot("dinner", "grains"), rf["grains"], 1)
               /\ LeadingItems(Slot("dinner", "proteins"), rf["proteins"], 1)
               /\ LeadingItems(Slot("dinner", "vegetables"), rf["vegetables"], 2)
               /\ LeadingItems(Slot("snacks", "fruits"), filtered("fruits"), 2)
               /\ LeadingItems(Slot("snacks", "nuts"), Select(rf["legumes"], NutNamed), 1)
               /\ Len(Slot("breakfast", "grains")) <= 2
               /\ Len(Slot("breakfast", "proteins")) <= 1
               /\ Range(Slot("breakfast", "proteins")) \subseteq {"eggs", "milk"}
               /\ Len(Slot("breakfast", "fruits")) <= 2
               /\ Len(Slot("lunch", "vegetables")) <= 3
               /\ Len(Slot("dinner", "vegetables")) <= 2
               /\ Len(Slot("snacks", "fruits")) <= 2
               /\ Len(Slot("snacks", "nuts")) <= 1

\* C21 happens: a region with more than three vegetables and with low-gi
\* grains that are not its first grains, limit_sugar being true
C21_Witness ==
    /\ Returned("_create_meal_plan") /\ ret.ok /\ call.limit_sugar
    /\ Len(InitialRegionalFoods[call.region]["vegetables"]) > 3
    /\ Len(Slot("lunch", "vegetables")) = 3
    /\ Slot("breakfast", "grains") # <<>>
    /\ Slot("breakfast", "grains") # Prefix(InitialRegionalFoods[call.region]["grains"], 2)

\* the food ids of one section of a recommendation whose values are lists
ListedFoods(section) == UNION {Range(section.v[k].v) : k \in DOMAIN section.v}

\* the profile's restrictions are the ones the profile agent's rules derive
\* from its diabetes status and health category
RuleDerivedRestrictions(p) ==
    p["dietary_restrictions"]
        = get_dietary_restrictions(p["diabetes_status"], p["health_category"])

\* C22: in the deterministic recommendation for any region of the static
\* catalog and any profile, no food id of foods_to_limit is in a slot of the
\* meal plan; stated for the profiles whose restrictions are rule-derived.
C22_LimitedFoodsNotPlanned ==
    (/\ Returned("_generate_fallback_recommendations") /\ ret.ok
     /\ RuleDerivedRestrictions(call.patient_profile))
        => ListedFoods(ret.val["foods_to_limit"]) \cap FoodsOfPlan(ret.val["meal_plan"])
             = {}

\* C23: in every report get_nutrition_recommendations returns, every food id
\* of recommendations.meal_plan is in the report's own regional_foods: the
\* catalog of step 2 and the catalog fetched again inside
\* generate_recommendations agree, whatever the external service answers.
C23_ReportCatalogsAgree ==
    (pc = "done" /\ report_out.ok)
        => /\ report_out.val["recommendations"]["meal_plan"].t = "dict"
           /\ FoodsOfPlan(report_out.val["recommendations"]["meal_plan"])
                 \subseteq AllAvailable(report_out.val["regional_foods"])

\* the items of a priority list that are in a set, in the list's order
ItemsIn(priority, available) == SelectSeq(priority, LAMBDA food : food \in available)

\* the restrictions and the catalog entry of the deterministic build returned
BuildRestrictions == call.patient_profile["dietary_restrictions"]

BuildEntry == InitialRegionalFoods[call.region]

\* C24: in the deterministic recommendation high_fiber is empty unless
\* increase_fiber is set, and then it is the items of kale, spinach, beans,
\* sweet_potatoes, avocados that are a food id of some category of the
\* entry, in that order; lean_proteins is the items of fish, chicken, eggs
\* in the entry's proteins; complex_carbs is the items of millet, sorghum,
\* sweet_potatoes in some category; every listed food is in the entry.
C24_PreferredFoods ==
    (Returned("_generate_fallback_recommendations") /\ ret.ok)
        => LET preferred == ret.val["preferred_foods"].v
           IN  /\ preferred["high_fiber"].v
                    = IF BuildRestrictions["increase_fiber"]
                      THEN ItemsIn(<<"kale", "spinach", "beans", "sweet_potatoes",
                                     "avocados">>, AllAvailable(BuildEntry))
                      ELSE <<>>
               /\ preferred["lean_proteins"].v
                    = ItemsIn(<<"fish", "chicken", "eggs">>, Range(BuildEntry["proteins"]))
               /\ preferred["complex_carbs"].v
                    = ItemsIn(<<"millet", "sorghum", "sweet_potatoes">>,
                              AllAvailable(BuildEntry))
               /\ ListedFoods(ret.val["preferred_foods"]) \subseteq AllAvailable(BuildEntry)

\* C24 happens: increase_fiber is set and the entry has some but not all of
\* the five high-fiber foods, and some but not all of the lean proteins
C24_Witness ==
    /\ Returned("_generate_fallback_recommendations") /\ ret.ok
    /\ BuildRestrictions["increase_fiber"]
    /\ Len(ret.val["preferred_foods"].v["high_fiber"].v) \in 1..4
    /\ Len(ret.val["preferred_foods"].v["lean_proteins"].v) \in 1..2

\* C25: in the deterministic recommendation high_gi_foods is empty when
\* limit_sugar is false and else the items of rice, watermelon, dates that
\* are in the entry; high_fat_foods is empty when limit_saturated_fat is
\* false and else the items of coconut_milk, groundnuts that are in the
\* entry.
C25_FoodsToLimit ==
    (Returned("_generate_fallback_recommendations") /\ ret.ok)
        => LET limit == ret.val["foods_to_limit"].v
           IN  /\ limit["high_gi_foods"].v
                    = IF BuildRestrictions["limit_sugar"]
                      THEN ItemsIn(<<"rice", "watermelon", "dates">>,
                                   AllAvailable(BuildEntry))
                      ELSE <<>>
               /\ limit["high_fat_foods"].v
                    = IF BuildRestrictions["limit_saturated_fat"]
                      THEN ItemsIn(<<"coconut_milk", "groundnuts">>,
                                   AllAvailable(BuildEntry))
                      ELSE <<>>

\* C25 happens: limit_sugar is set and limit_saturated_fat is not, the entry
\* having a high-gi food and a high-fat food
C25_Witness ==
    /\ Returned("_generate_fallback_recommendations") /\ ret.ok
    /\ BuildRestrictions["limit_sugar"] /\ ~BuildRestrictions["limit_saturated_fat"]
    /\ ret.val["foods_to_limit"].v["high_gi_foods"].v # <<>>
    /\ ret.val["foods_to_limit"].v["high_fat_foods"].v = <<>>
    /\ AllAvailable(BuildEntry) \cap {"coconut_milk", "groundnuts"} # {}

\* the words a guideline can start with, singly or combined
PortionPrefixes == {"", "Small ", "Moderate ", "Small Moderate ", "Moderate Small "}

\* the prefixes under which the returned guideline of a category is its base
\* guideline
PrefixesOf(category) ==
    {p \in PortionPrefixes :
        ret.val["portion_guidelines"].v[category].v = p \o BaseGuidelines[category]}

\* C26: the five portion guidelines all start with "Small " when
\* health_category is high_risk, else all with "Moderate " when bmi >= 30,
\* else all are the base guidelines; none carries both words.
C26_PortionPrefixes ==
    (Returned("_generate_fallback_recommendations") /\ ret.ok)
        => /\ DOMAIN ret.val["portion_guidelines"].v = DOMAIN BaseGuidelines
           /\ \A category \in DOMAIN BaseGuidelines :
                 PrefixesOf(category)
                    = IF call.patient_profile["health_category"] = "high_risk"
                        THEN {"Small "}
                      ELSE IF call.patient_profile["bmi"] >= 3000 THEN {"Moderate "}
                      ELSE {""}

\* C26 happens: a high_risk profile with bmi 30, every guideline "Small"
C26_Witness ==
    /\ Returned("_generate_fallback_recommendations") /\ ret.ok
    /\ call.patient_profile["health_category"] = "high_risk"
    /\ call.patient_profile["bmi"] = 3000
    /\ \A category \in DOMAIN BaseGuidelines : PrefixesOf(category) = {"Small "}

\* the fields of a profile that repeat the request
EchoedFields ==
    {"age", "weight", "height", "blood_sugar", "blood_pressure", "diabetes_status",
     "location"}

\* C27: in every profile create_patient_profile returns, on the external
\* path as on the fallback path, age, weight, height, blood_sugar,
\* blood_pressure, diabetes_status and location are present and equal to the
\* values of the request.
C27_ProfileEchoesInputs ==
    (ProfileCalled /\ ValidVitals(request) /\ profile_out.ok)
        => /\ EchoedFields \subseteq DOMAIN profile_out.val
           /\ \A field \in EchoedFields : profile_out.val[field] = request[field]

\* the foods of a list whose glycemic index in the nutrition table is below 55
TableLowGi(foods) ==
    {foods[i] : i \in {j \in 1..Len(foods) : nutrition_db[foods[j]].gi < 55}}

\* C28: for a food id of the nutrition table the glycemic index
\* get_nutritional_info returns is the table's, whether the external call
\* fails or answers anything; so _filter_by_gi on a list of foods of the
\* table returns what the table's values give, whatever the answer.
C28_LocalPrecedence ==
    /\ (Returned("get_nutritional_info") /\ call.food_item \in DOMAIN nutrition_db)
          => /\ ret.ok /\ "gi" \in DOMAIN ret.val
             /\ ret.val["gi"].t = "num"
             /\ ret.val["gi"].v = nutrition_db[call.food_item].gi
    /\ (Returned("_filter_by_gi") /\ Range(call.foods) \subseteq DOMAIN nutrition_db)
          => ret = Ok(IF ~call.limit_sugar THEN call.foods
                      ELSE IF TableLowGi(call.foods) # {}
                        THEN ItemsIn(call.foods, TableLowGi(call.foods))
                      ELSE Prefix(call.foods, 2))

\* C28 happens: the answer gives glycemic index 10 for every food, and the
\* filter still drops rice (73 in the table) and keeps kale (15)
C28_Witness ==
    /\ Returned("_filter_by_gi") /\ call.limit_sugar
    /\ call.foods = <<"rice", "kale">>
    /\ AnsweredObject(call.resp)
    /\ Has(ParseResponse(call.resp).val.v, "gi")
    /\ ParseResponse(call.resp).val.v["gi"].t = "num"
    /\ ParseResponse(call.resp).val.v["gi"].v = 10
    /\ ret = Ok(<<"kale">>)

FiveCategories == {"grains", "vegetables", "fruits", "legumes", "proteins"}

\* C29: every region the alias table maps to, and the default region
\* central, is a key of the static catalog; every entry has exactly the
\* categories grains, vegetables, fruits, legumes and proteins; every food
\* id of every entry has a row in the nutrition table, so that the lookup
\* of a catalog food never gives the neutral record; stated of the tables
\* at every return of the region lookup, and of the entry returned.
C29_CatalogIntegrity ==
    Returned("_get_regional_foods_fallback")
        => /\ {region_mapping[alias] : alias \in DOMAIN region_mapping} \cup {"central"}
                 \subseteq DOMAIN InitialRegionalFoods
           /\ \A region \in DOMAIN InitialRegionalFoods :
                 /\ DOMAIN InitialRegionalFoods[region] = FiveCategories
                 /\ AllAvailable(InitialRegionalFoods[region]) \subseteq DOMAIN nutrition_db
                 /\ \A food \in AllAvailable(InitialRegionalFoods[region]) :
                       /\ _get_local_nutrition_data(food) # EmptyDict
                       /\ "gi" \in DOMAIN _get_local_nutrition_data(food)
           /\ ret.ok
           /\ DOMAIN ret.val = FiveCategories
           /\ AllAvailable(ret.val) \subseteq DOMAIN nutrition_db

\* C29 happens: an alias resolved to the entry of its region, every food of
\* which has a row in the nutrition table
C29_Witness ==
    /\ Returned("_get_regional_foods_fallback")
    /\ call.location = "garissa"
    /\ ret.val = InitialRegionalFoods[region_mapping["garissa"]]
    /\ AllAvailable(ret.val) # {}
    /\ AllAvailable(ret.val) \subseteq DOMAIN nutrition_db

\* C30: whenever create_patient_profile computes health_category itself, in
\* _fallback_profile_creation as in _validate_profile, the category returned
\* is categorize_health_status of the returned profile's bmi, the value
\* rounded to two decimals, and the request's other vitals.
C30_CategoryFromReportedBmi ==
    (ProfileCalled /\ ValidVitals(request) /\ profile_out.ok /\ ~AiCategoryKept)
        => profile_out.val["health_category"]
             = categorize_health_status(request.age, Hundredths(profile_out.val["bmi"]),
                                        request.blood_sugar, request.blood_pressure,
                                        request.diabetes_status)
-----------------------------------------------------------------------------
(* Actions                                                                 *)

\* step 1 of the pipeline: patient_agent.create_patient_profile(...), with the
\* external model answering resp; an exception leaves the pipeline
Step1(resp) ==
    /\ pc = "step1"
    /\ svc' = [svc EXCEPT !.profile = resp]
    /\ profile_out' = create_patient_profile(request, resp)
    /\ pc' = IF profile_out'.ok THEN "step2" ELSE "raised"
    /\ UNCHANGED <<request, foods_out, recs_out, recs_foods, report_out,
                   db_regional_foods, call, ret>>

\* step 2: regional_agent.get_regional_foods(location), location being the
\* request's
Step2(cat, order) ==
    /\ pc = "step2"
    /\ svc' = [svc EXCEPT !.catalog = cat]
    /\ foods_out' = Ok(get_regional_foods(request.location, cat, order))
    /\ db_regional_foods' = regional_foods_after_enhance(request.location, cat)
    /\ pc' = "step3"
    /\ UNCHANGED <<request, profile_out, recs_out, recs_foods, report_out, call, ret>>

\* step 3: recommendation_agent.generate_recommendations(patient_profile);
\* recs_foods is the catalog the call fetched for itself
Step3(cat, order, nut, rec) ==
    /\ pc = "step3"
    /\ svc' = [svc EXCEPT !.rec_catalog = cat, !.nutrition = nut, !.rec = rec]
    /\ recs_foods' = RecommendationFoods(profile_out.val, cat, order)
    /\ recs_out' = generate_recommendations(profile_out.val, cat, order, nut, rec)
    /\ db_regional_foods' =
          IF recs_foods'.ok
          THEN regional_foods_after_enhance(profile_out.val["location"], cat)
          ELSE db_regional_foods
    /\ pc' = IF recs_out'.ok THEN "step4" ELSE "raised"
    /\ UNCHANGED <<request, profile_out, foods_out, report_out, call, ret>>

\* the report is compiled and returned
Step4 ==
    /\ pc = "step4"
    /\ report_out' = complete_report(profile_out.val, foods_out.val, recs_out.val)
    /\ pc' = IF report_out'.ok THEN "done" ELSE "raised"
    /\ UNCHANGED <<request, svc, profile_out, foods_out, recs_out, recs_foods,
                   db_regional_foods, call, ret>>

-----------------------------------------------------------------------------
(* create_patient_profile on its own, over the grid of vitals              *)

CreateProfile ==
    LET answers == ProfileAnswers(request)
    IN  \E i \in 1..Len(answers) : Step1(answers[i])

InitProfile ==
    /\ pc = "step1"
    /\ request \in ProfilerGrid
    /\ svc = NoAnswers
    /\ profile_out = Nothing
    /\ foods_out = Nothing
    /\ recs_out = Nothing
    /\ recs_foods = Nothing
    /\ report_out = Nothing
    /\ db_regional_foods = InitialRegionalFoods
    /\ call = NoCall
    /\ ret = Nothing

NextProfile == CreateProfile

SpecProfile == InitProfile /\ [][NextProfile]_vars

-----------------------------------------------------------------------------
(* generate_recommendations on its own, on the profiles the profile agent  *)
(* returns for the patients                                                *)

\* the answers to the profile prompt behind those profiles: a failed call,
\* the answer asked for, an empty object
FewProfileAnswers(req) ==
    <<Raises, Plain(ProfileBodies(req)[1]), Plain(ProfileBodies(req)[7])>>

InitRecommend ==
    /\ pc = "step3"
    /\ request \in Range(Patients)
    /\ \E i \in 1..Len(FewProfileAnswers(request)) :
          /\ svc = [NoAnswers EXCEPT !.profile = FewProfileAnswers(request)[i]]
          /\ profile_out = create_patient_profile(request, FewProfileAnswers(request)[i])
    /\ profile_out.ok
    /\ foods_out = Nothing
    /\ recs_out = Nothing
    /\ recs_foods = Nothing
    /\ report_out = Nothing
    /\ db_regional_foods = InitialRegionalFoods
    /\ call = NoCall
    /\ ret = Nothing

GenerateRecommendations ==
    /\ pc = "step3"
    /\ \E c \in 1..Len(CatalogAnswers), order \in SetOrders,
       n \in 1..Len(NutritionAnswers), r \in 1..Len(RecommendationAnswers) :
          Step3(CatalogAnswers[c], order, NutritionAnswers[n], RecommendationAnswers[r])

NextRecommend == GenerateRecommendations

SpecRecommend == InitRecommend /\ [][NextRecommend]_vars

-----------------------------------------------------------------------------
(* get_nutrition_recommendations: the pipeline, one request                *)

\* the answers the pipeline is run against at each of its calls
FewCatalogAnswers == <<Raises, Plain(CatalogBodies[1]), Plain(D(EmptyDict))>>

FewNutritionAnswers == <<Raises, Plain(D([gi |-> JNull]))>>

FewRecommendationAnswers ==
    <<Raises, Plain(RecommendationBodies[1]), Plain(RecommendationBodies[3]),
      Plain(RecommendationBodies[12]), Plain(RecommendationBodies[13])>>

CreatePatientProfile ==
    /\ pc = "step1"
    /\ \E i \in 1..Len(FewProfileAnswers(request)) : Step1(FewProfileAnswers(request)[i])

GetRegionalFoods ==
    /\ pc = "step2"
    /\ \E c \in 1..Len(FewCatalogAnswers), order \in SetOrders :
          Step2(FewCatalogAnswers[c], order)

Recommend ==
    /\ pc = "step3"
    /\ \E c \in 1..Len(FewCatalogAnswers), order \in SetOrders,
          n \in 1..Len(FewNutritionAnswers), r \in 1..Len(FewRecommendationAnswers) :
          Step3(FewCatalogAnswers[c], order, FewNutritionAnswers[n],
                FewRecommendationAnswers[r])

Init ==
    /\ pc = "step1"
    /\ request \in Range(Patients)
    /\ svc = NoAnswers
    /\ profile_out = Nothing
    /\ foods_out = Nothing
    /\ recs_out = Nothing
    /\ recs_foods = Nothing
    /\ report_out = Nothing
    /\ db_regional_foods = InitialRegionalFoods
    /\ call = NoCall
    /\ ret = Nothing

Next ==
    \/ CreatePatientProfile
    \/ GetRegionalFoods
    \/ Recommend
    \/ Step4

Spec == Init /\ [][Next]_vars


-----------------------------------------------------------------------------
(* The methods called on their own                                         *)

\* a call returns: only ret and pc change
Returns(result) ==
    /\ ret' = result
    /\ pc' = "returned"
    /\ UNCHANGED <<request, svc, profile_out, foods_out, recs_out, recs_foods,
                   report_out, db_regional_foods, call>>

CallRegionalFoodsFallback ==
    /\ pc = "call"
    /\ call.op = "_get_regional_foods_fallback"
    /\ Returns(Ok(_get_regional_foods_fallback(call.location)))

CallNutritionalInfo ==
    /\ pc = "call"
    /\ call.op = "get_nutritional_info"
    /\ Returns(Ok(get_nutritional_info(call.food_item, call.resp)))

\* categorize_health_status on each input of a pair
CategorizeOf(x) ==
    categorize_health_status(x.age, x.bmi, x.blood_sugar, x.blood_pressure,
                             x.diabetes_status)

CallCategorizeHealthStatus ==
    /\ pc = "call"
    /\ call.op = "categorize_health_status"
    /\ Returns(Ok(<<CategorizeOf(call.x), CategorizeOf(call.y)>>))

CallFilterByGi ==
    /\ pc = "call"
    /\ call.op = "_filter_by_gi"
    /\ Returns(_filter_by_gi(call.foods, call.limit_sugar, call.resp))

\* the meal plan of a region of the static catalog; the profile argument is
\* not read
CallCreateMealPlan ==
    /\ pc = "call"
    /\ call.op = "_create_meal_plan"
    /\ Returns(_create_meal_plan(InitialRegionalFoods[call.region],
                                 [AllRestrictions(FALSE)
                                      EXCEPT !.limit_sugar = call.limit_sugar],
                                 EmptyDict, call.resp))

\* the deterministic recommendation for a profile and a region of the static
\* catalog
CallGenerateFallbackRecommendations ==
    /\ pc = "call"
    /\ call.op = "_generate_fallback_recommendations"
    /\ Returns(_generate_fallback_recommendations(call.patient_profile,
                                                  InitialRegionalFoods[call.region],
                                                  call.resp))

InitCalls ==
    /\ pc = "call"
    /\ request = NoCall
    /\ svc = NoAnswers
    /\ profile_out = Nothing
    /\ foods_out = Nothing
    /\ recs_out = Nothing
    /\ recs_foods = Nothing
    /\ report_out = Nothing
    /\ db_regional_foods = InitialRegionalFoods
    /\ ret = Nothing
    /\ \/ call \in RegionCalls
       \/ call \in CategorizeCalls
       \/ \E foods \in FoodLists, limit_sugar \in BOOLEAN,
             n \in 1..Len(NutritionAnswers) :
             call = FilterCall(foods, limit_sugar, n)
       \/ \E region \in DOMAIN InitialRegionalFoods, limit_sugar \in BOOLEAN,
             n \in 1..Len(NutritionAnswers) :
             call = MealPlanCall(region, limit_sugar, n)
       \/ \E region \in DOMAIN InitialRegionalFoods, health_category \in ValidCategories,
             bmi \in EngineBmis, diabetes_status \in EngineStatuses,
             limit_sugar \in BOOLEAN, increase_fiber \in BOOLEAN,
             limit_saturated_fat \in BOOLEAN, n \in 1..Len(EngineNutritionAnswers) :
             call = EngineCall(region,
                               EngineProfile(health_category, bmi, diabetes_status,
                                             limit_sugar, increase_fiber,
                                             limit_saturated_fat), n)
       \/ \E f \in CallFoods, i \in 1..Len(CallNutritionAnswers) :
             call = NutritionCall(f, i)

NextCalls ==
    \/ CallRegionalFoodsFallback
    \/ CallNutritionalInfo
    \/ CallCategorizeHealthStatus
    \/ CallFilterByGi
    \/ CallCreateMealPlan
    \/ CallGenerateFallbackRecommendations

SpecCalls == InitCalls /\ [][NextCalls]_vars

-----------------------------------------------------------------------------
(* One agent serving requests one after another                            *)

\* a request is served: its result is kept in ret, and the table is what the
\* request leaves
Serves(c, result, regional_foods) ==
    /\ call' = c
    /\ ret' = result
    /\ db_regional_foods' = regional_foods
    /\ UNCHANGED <<pc, request, svc, profile_out, foods_out, recs_out, recs_foods,
                   report_out>>

ServeProfile ==
    \E p \in 1..Len(ServePatients), i \in 1..Len(FewProfileAnswers(ServePatients[1])) :
        Serves([op |-> "create_patient_profile", patient_data |-> ServePatients[p],
                resp |-> FewProfileAnswers(ServePatients[p])[i]],
               create_patient_profile(ServePatients[p],
                                      FewProfileAnswers(ServePatients[p])[i]),
               db_regional_foods)

ServeRegionalFoods ==
    \E l \in ServeLocations, c \in 1..Len(ServeCatalogAnswers), order \in SetOrders :
        Serves([op |-> "get_regional_foods", location |-> l,
                resp |-> ServeCatalogAnswers[c], order |-> order],
               Ok(get_regional_foods(l, ServeCatalogAnswers[c], order)),
               regional_foods_after_enhance(l, ServeCatalogAnswers[c]))

ServeNutritionalInfo ==
    \E f \in ServeFoods, i \in 1..Len(CallNutritionAnswers) :
        Serves(NutritionCall(f, i),
               Ok(get_nutritional_info(f, CallNutritionAnswers[i])),
               db_regional_foods)

\* the catalog prompt of generate_recommendations fails or is answered as asked
ServeRecommendation ==
    \E p \in 1..Len(ServePatients), c \in 1..2, order \in SetOrders,
       n \in 1..Len(FewNutritionAnswers), r \in 1..Len(ServeRecommendationAnswers) :
        With(_fallback_profile_creation(ServePatients[p]).val, LAMBDA patient_profile :
            Serves([op |-> "generate_recommendations", patient_profile |-> patient_profile,
                    cat |-> ServeCatalogAnswers[c], order |-> order,
                    nut |-> FewNutritionAnswers[n], rec |-> ServeRecommendationAnswers[r]],
                   generate_recommendations(patient_profile, ServeCatalogAnswers[c], order,
                       FewNutritionAnswers[n], ServeRecommendationAnswers[r]),
                   regional_foods_after_enhance(patient_profile["location"],
                                                ServeCatalogAnswers[c])))

InitServe ==
    /\ pc = "serving"
    /\ request = NoCall
    /\ svc = NoAnswers
    /\ profile_out = Nothing
    /\ foods_out = Nothing
    /\ recs_out = Nothing
    /\ recs_foods = Nothing
    /\ report_out = Nothing
    /\ db_regional_foods = InitialRegionalFoods
    /\ call = NoCall
    /\ ret = Nothing

NextServe ==
    \/ ServeProfile
    \/ ServeRegionalFoods
    \/ ServeNutritionalInfo
    \/ ServeRecommendation

SpecServe == InitServe /\ [][NextServe]_vars

====
